---- MODULE Spec2Model ----
(***************************************************************************)
(* A model of the EchoSphere chat server (src/server) and of the shared    *)
(* connection protocol (src/shared/chat_protocol.py).                      *)
(*                                                                         *)
(* Strings are tuples of character codes ("abc" is <<97, 98, 99>>), so     *)
(* that the validators compute on lengths and characters as the code does. *)
(* Python's None is the tuple <<-1>>, which is no string.                  *)
(*                                                                         *)
(* Everything on the server runs on one asyncio event loop: a callback     *)
(* (data_received, connection_lost, a heartbeat-monitor tick) runs to      *)
(* completion before the next one starts.  data_received is a loop over    *)
(* the packets of the buffer; the variable cur holds the connection whose  *)
(* loop is running and each iteration of the loop is one step.  While a    *)
(* loop runs no other callback is enabled.                                 *)
(***************************************************************************)
EXTENDS Integers, Sequences, FiniteSets, TLC

(* ---------------------------------------------------------------- bounds *)
NConn == 2        \* connections the server accepts in one run
MaxPkts == 3      \* packets the server takes from all connections in one run
MaxChunk == 2     \* complete packets one read can hold
MaxTime == 16     \* the clock stops here
TimeStep == 16    \* seconds the clock advances in one step
MaxCalls == 3     \* send_packet_and_wait calls on the client's protocol
MaxInbound == 3   \* packets the client's protocol receives
MaxWrites == 4    \* packets written to the client's transport
MaxCloses == 2    \* close_connection calls on the client's protocol
MaxFrames == 2    \* frames on the wire of the protocol that reads bytes
MaxBeats == 2     \* heartbeats the client sends in one run
MaxStops == 2     \* calls of ClientApplication.stop in one run
NCallbacks == 3   \* callbacks that register with the EventEmitter

Conns == 1..NConn

(* ------------------------------------------------------------- constants *)
None == <<-1>>

\* shared/packets/types.py: PacketType
HEARTBEAT == 1
LOGIN == 2
MESSAGE == 3
RESPONSE == 4
LOGOUT == 5
\* a tag PacketType does not know: Packet.deserialize_header raises UnknownPacketError
UNKNOWN_TAG == 9

\* shared/packets/types.py: ResponseCode
OK == 0
INVALID_USERNAME == 1
TAKEN_USERNAME == 2
INVALID_MESSAGE == 3
WRONG_PASSWORD == 4
GENERIC_ERROR == 5
NoResponse == 0 - 1
\* Connection.last_heartbeat before the first HEARTBEAT (Python's None)
NoTime == 0 - 1

\* the errors that travel with connection_lost and user_left
NoErr == "None"
CodecError == "BaseProtocolError"
TransportError == "OSError"
ConnectionClosedError == "ConnectionClosedError"
NetworkError == "NetworkError"

(* ------------------------------------------------------------ validators *)
AlphaNum == (48..57) \cup (65..90) \cup (97..122)

\* shared/validators.py: valid_username
valid_username(username) ==
    /\ 3 <= Len(username)
    /\ Len(username) <= 12
    /\ Len(username) >= 1
    /\ \A i \in 1..Len(username) : username[i] \in AlphaNum

\* shared/validators.py: valid_message
valid_message(message) == 1 <= Len(message) /\ Len(message) <= 1000

(* ---------------------------------------------------------------- inputs *)
Ali == <<97, 108, 105>>
Bob == <<98, 111, 98>>
Ab == <<97, 98>>
Cat == <<67, 97, 116>>
Pw == <<112, 119>>
Hi == <<104, 105>>
Empty == <<>>
SlashX == <<47, 120>>

Pkt(t, u, p, m) == [type |-> t, username |-> u, password |-> p, message |-> m]

LoginPackets ==
    {Pkt(LOGIN, u, p, None) : u \in {Ali, Bob}, p \in {None, Pw}}
    \cup {Pkt(LOGIN, u, None, None) : u \in {Cat, Ab}}
MessagePackets == {Pkt(MESSAGE, None, None, m) : m \in {Empty, Hi, SlashX}}
OtherPackets == {Pkt(t, None, None, None) : t \in {HEARTBEAT, LOGOUT, RESPONSE, UNKNOWN_TAG}}
Packets == LoginPackets \cup MessagePackets \cup OtherPackets

Min(a, b) == IF a < b THEN a ELSE b

(* ----------------------------------------------------------------- state *)
VARIABLES
    tstate,           \* transport of each ChatProtocol: "new", "open", "closing", "lost"
    pendErr,          \* the exception the transport will pass to connection_lost
    perror,           \* ChatProtocol._error
    buffer,           \* ChatProtocol.buffer: the number of complete packets it holds
    cur,              \* the connection whose data_received loop is running, or 0
    connections,      \* ServerNetworking.connections: its keys, in insertion order
    username,         \* Connection.username
    connection_time,  \* Connection.connection_time
    last_heartbeat,   \* Connection.last_heartbeat
    connected_users,  \* ServerApplication.connected_users: <<[name, conn], ...>>
    server_password,  \* ServerNetworking.server_password
    monitor,          \* the heartbeat monitor task: "running" or "crashed"
    now,              \* datetime.now()
    nRecv,            \* packets the server has taken so far
    joined,           \* user_joined emissions per connection
    left,             \* user_left emissions per connection
    handled,          \* the packet last taken from a buffer, and the response written to it
    lastLeftErr,      \* the err of the last user_left emitted for each connection
    graceful,         \* the LOGOUT handler has emitted user_left for the connection
    overdue,          \* a monitor tick has met the connection logged-in and silent > 15 s
    sent,             \* the MESSAGE packets the last step wrote, and to which connection
    proto,            \* the client's ChatProtocol object
    running,          \* its data_received loop is running
    futures,          \* the asyncio.Future objects send_packet_and_wait has made
    seen,             \* what the client's protocol has done so far
    codec,            \* one ChatProtocol reading a byte stream: wire, buffer, packets
    client,           \* the client's ClientNetworking object, its transport and its join
    emitter           \* one EventEmitter: its _listeners and what its last call did

netVars == <<tstate, pendErr, perror, buffer, cur>>
srvVars == <<connections, username, connection_time, last_heartbeat, connected_users,
             server_password, monitor, now>>
obsVars == <<nRecv, joined, left, handled, lastLeftErr, graceful, overdue>>
cliVars == <<proto, running, futures, seen>>
serverVars == <<netVars, srvVars, obsVars, sent>>
codVars == <<codec>>
joinVars == <<client>>
emitVars == <<emitter>>
vars == <<serverVars, cliVars, codVars, joinVars, emitVars>>

(* ------------------------------------------------------ shared/chat_protocol *)
\* ChatProtocol.is_closed: _closed_event is set until connection_made and again
\* from connection_lost on
is_closed(ts, c) == ts[c] \in {"new", "lost"}

\* ChatProtocol.close_connection: closes the transport unless it is closing
close_connection(ts, c) == IF ts[c] = "open" THEN [ts EXCEPT ![c] = "closing"] ELSE ts

\* ChatProtocol.send_packet raises ConnectionClosedError on a closed protocol;
\* the transport's write itself buffers and does not raise
send_packet_raises(ts, c) == is_closed(ts, c)

(* ------------------------------------------------------- shared/packets *)
\* Bytes are numbers 0..255 and a payload is a tuple of bytes.  The texts of
\* the model are ASCII, for which str.encode('utf-8') and bytes.decode('utf-8')
\* keep every code as it is.

\* the byte of '|'
Pipe == 124

InvalidPayloadError == "InvalidPayloadError"
UnknownPacketError == "UnknownPacketError"

\* Packet.HEADER_SIZE: struct.calcsize('>BBH')
HEADER_SIZE == 4

\* the version byte Packet.__init__ packs into every header
PROTOCOL_VERSION == 1

\* a packet object: the attributes its class sets, None or NoResponse elsewhere
WirePacket(t, u, p, m, r) ==
    [type |-> t, username |-> u, password |-> p, message |-> m, response_code |-> r]

NoPacket == WirePacket(0, None, None, None, NoResponse)

HeartbeatPacket == WirePacket(HEARTBEAT, None, None, None, NoResponse)
LogoutPacket == WirePacket(LOGOUT, None, None, None, NoResponse)
LoginPacket(name, password) ==
    WirePacket(LOGIN, name, password, None, NoResponse)
MessagePacket(name, text) ==
    WirePacket(MESSAGE, name, None, text, NoResponse)
ResponsePacket(response_code) ==
    WirePacket(RESPONSE, None, None, None, response_code)

\* PacketType(value) and ResponseCode(value) succeed on these
PacketTypes == {HEARTBEAT, LOGIN, MESSAGE, RESPONSE, LOGOUT}
ResponseCodes == {OK, INVALID_USERNAME, TAKEN_USERNAME, INVALID_MESSAGE,
                  WRONG_PASSWORD, GENERIC_ERROR}

\* MAX_PAYLOAD_LENGTH of the class registered for a packet type
MAX_PAYLOAD_LENGTH(type) ==
    CASE type = HEARTBEAT -> 0
      [] type = LOGIN -> 256
      [] type = MESSAGE -> 4096
      [] type = RESPONSE -> 1
      [] type = LOGOUT -> 0

\* "x or ''" of the f-strings in LoginPacket.__init__ and MessagePacket.__init__
OrEmpty(x) == IF x = None THEN <<>> ELSE x

\* the payload each class hands to Packet.__init__
PayloadOf(packet) ==
    CASE packet.type = LOGIN ->
             packet.username \o <<Pipe>> \o OrEmpty(packet.password)
      [] packet.type = MESSAGE ->
             OrEmpty(packet.username) \o <<Pipe>> \o packet.message
      [] packet.type = RESPONSE -> <<packet.response_code>>
      [] OTHER -> <<>>

\* struct.pack('>BBH', 1, PACKET_TYPE, len(payload)) in Packet.__init__
PackHeader(type, length) == <<PROTOCOL_VERSION, type, length \div 256, length % 256>>

\* Packet.__init__ followed by Packet.serialize: header + payload
serialize(packet) ==
    LET payload == PayloadOf(packet)
    IN IF Len(payload) > MAX_PAYLOAD_LENGTH(packet.type)
       THEN [error |-> InvalidPayloadError, bytes |-> <<>>]
       ELSE [error |-> NoErr, bytes |-> PackHeader(packet.type, Len(payload)) \o payload]

\* str.split("|"): the pieces between all the '|' of the text
RECURSIVE split(_)
split(text) ==
    IF \A i \in 1..Len(text) : text[i] # Pipe THEN <<text>>
    ELSE LET i == CHOOSE k \in 1..Len(text) :
                      text[k] = Pipe /\ \A j \in 1..(k - 1) : text[j] # Pipe
         IN <<SubSeq(text, 1, i - 1)>> \o split(SubSeq(text, i + 1, Len(text)))

\* the _from_payload of each class; unpacking into two names raises ValueError
\* unless split gave two pieces, and the except clause turns it into
\* InvalidPayloadError
from_payload_of_class(type, payload) ==
    CASE type = LOGIN ->
             LET parts == split(payload)
             IN IF Len(parts) # 2 THEN [error |-> InvalidPayloadError, packet |-> NoPacket]
                ELSE [error |-> NoErr,
                      packet |-> LoginPacket(parts[1],
                                     IF parts[2] = <<>> THEN None ELSE parts[2])]
      [] type = MESSAGE ->
             LET parts == split(payload)
             IN IF Len(parts) # 2 THEN [error |-> InvalidPayloadError, packet |-> NoPacket]
                ELSE [error |-> NoErr,
                      packet |-> MessagePacket(IF parts[1] = <<>> THEN None ELSE parts[1],
                                               parts[2])]
      [] type = RESPONSE ->
             \* int.from_bytes of at most one byte; of no byte it is 0
             LET value == IF payload = <<>> THEN 0 ELSE payload[1]
             IN IF value \in ResponseCodes
                THEN [error |-> NoErr, packet |-> ResponsePacket(value)]
                ELSE [error |-> InvalidPayloadError, packet |-> NoPacket]
      [] type = HEARTBEAT -> [error |-> NoErr, packet |-> HeartbeatPacket]
      [] type = LOGOUT -> [error |-> NoErr, packet |-> LogoutPacket]

\* the error that leaves the "except Exception as e" of Packet.from_payload
WrappedError(error) == CodecError

\* Packet.from_payload: the length check, then _from_payload inside try/except
from_payload(type, payload) ==
    IF Len(payload) > MAX_PAYLOAD_LENGTH(type)
    THEN [error |-> InvalidPayloadError, packet |-> NoPacket]
    ELSE LET r == from_payload_of_class(type, payload)
         IN IF r.error # NoErr THEN [error |-> WrappedError(r.error), packet |-> NoPacket]
            ELSE r

\* Packet.deserialize_header on the four bytes of a header
deserialize_header(raw_data) ==
    IF raw_data[2] \notin PacketTypes
    THEN [error |-> UnknownPacketError, type |-> 0, length |-> 0]
    ELSE [error |-> NoErr, type |-> raw_data[2],
          length |-> raw_data[3] * 256 + raw_data[4]]

\* what packet_factory returns when the buffer holds no whole packet: (None, None)
NoWholePacket(buf) == [kind |-> "none", packet |-> NoPacket, length |-> 0, error |-> NoErr]

\* packet_factory(buffer): the first packet of the buffer and its size
packet_factory(buf) ==
    IF Len(buf) >= HEADER_SIZE
    THEN LET h == deserialize_header(SubSeq(buf, 1, HEADER_SIZE))
             total_packet_size == HEADER_SIZE + h.length
             payload == SubSeq(buf, HEADER_SIZE + 1, Min(total_packet_size, Len(buf)))
         IN IF h.error # NoErr
            THEN [kind |-> "error", packet |-> NoPacket, length |-> 0, error |-> h.error]
            ELSE IF Len(payload) >= h.length
            THEN LET r == from_payload(h.type, payload)
                 IN IF r.error # NoErr
                    THEN [kind |-> "error", packet |-> NoPacket, length |-> 0,
                          error |-> r.error]
                    ELSE [kind |-> "packet", packet |-> r.packet,
                          length |-> total_packet_size, error |-> NoErr]
            ELSE NoWholePacket(buf)
    ELSE NoWholePacket(buf)

\* the loop of ChatProtocol.data_received on the bytes of the buffer: the packets
\* emitted, the buffer left, and the BaseProtocolError that ended the loop
RECURSIVE DrainBuffer(_, _)
DrainBuffer(buf, packets) ==
    LET next_packet == packet_factory(buf)
    IN CASE next_packet.kind = "packet" ->
                DrainBuffer(SubSeq(buf, next_packet.length + 1, Len(buf)),
                            Append(packets, next_packet.packet))
         [] next_packet.kind = "error" ->
                [buffer |-> buf, packets |-> packets, error |-> next_packet.error]
         [] OTHER -> [buffer |-> buf, packets |-> packets, error |-> NoErr]

\* the concatenation of the bytes of a sequence of frames
RECURSIVE Concat(_)
Concat(frames) == IF frames = <<>> THEN <<>> ELSE Head(frames).bytes \o Concat(Tail(frames))

\* a ChatProtocol after connection_made whose peer will send the given frames
Reading(frames) ==
    [frames |-> frames, wire |-> Concat(frames), fed |-> 0, buffer |-> <<>>,
     emitted |-> <<>>, error |-> NoErr, transport |-> "open", pending |-> NoErr,
     lost |-> <<>>]

(* ------------------------------------------------------------ server/main *)
HasUser(users, name) == \E i \in 1..Len(users) : users[i].name = name

\* connected_users[name] = conn: a dict keeps the place of a key it already has
DictSet(users, name, conn) ==
    IF HasUser(users, name)
    THEN [i \in 1..Len(users) |->
            IF users[i].name = name THEN [name |-> name, conn |-> conn] ELSE users[i]]
    ELSE Append(users, [name |-> name, conn |-> conn])

\* del connected_users[name]
DictDel(users, name) == SelectSeq(users, LAMBDA e : e.name # name)

\* connected_users[name]
DictGet(users, name) == users[CHOOSE i \in 1..Len(users) : users[i].name = name].conn

\* f"User {username} has joined!"
JoinedText(name) ==
    <<85, 115, 101, 114, 32>> \o name \o <<32, 104, 97, 115, 32, 106, 111, 105, 110, 101, 100, 33>>

\* f"User {username} has left!"
LeftText(name) ==
    <<85, 115, 101, 114, 32>> \o name \o <<32, 104, 97, 115, 32, 108, 101, 102, 116, 33>>

\* f"User {username} has lost the connection to the server!"
LostText(name) ==
    <<85, 115, 101, 114, 32>> \o name \o
    <<32, 104, 97, 115, 32, 108, 111, 115, 116, 32, 116, 104, 101, 32, 99, 111, 110, 110,
      101, 99, 116, 105, 111, 110, 32, 116, 111, 32, 116, 104, 101, 32, 115, 101, 114,
      118, 101, 114, 33>>

\* "Invalid command!"
InvalidCommandText ==
    <<73, 110, 118, 97, 108, 105, 100, 32, 99, 111, 109, 109, 97, 110, 100, 33>>

\* transport.write of a packet: a transport that is closing drops what is written
Written(ts, conn, packet) ==
    IF ts[conn] = "open" THEN <<[to |-> conn, packet |-> packet]>> ELSE <<>>

\* ServerApplication.broadcast_message: the loop stops at the first recipient
\* whose send_packet raises, and the exception leaves the method
broadcast_message_raises(users, sender, ts) ==
    \E i \in 1..Len(users) :
        /\ ~(sender # None /\ sender = users[i].name)
        /\ send_packet_raises(ts, users[i].conn)

\* the packets the loop of broadcast_message writes from position i on
RECURSIVE BroadcastLoop(_, _, _, _, _)
BroadcastLoop(users, sender, text, ts, i) ==
    IF i > Len(users) THEN <<>>
    ELSE IF sender # None /\ sender = users[i].name
    THEN BroadcastLoop(users, sender, text, ts, i + 1)
    ELSE IF send_packet_raises(ts, users[i].conn) THEN <<>>
    ELSE Written(ts, users[i].conn, MessagePacket(sender, text))
         \o BroadcastLoop(users, sender, text, ts, i + 1)

\* ServerApplication.broadcast_message
broadcast_message(users, sender, text, ts) ==
    [raised |-> broadcast_message_raises(users, sender, ts),
     sent |-> BroadcastLoop(users, sender, text, ts, 1)]

\* ServerApplication.send_message_to: KeyError for a recipient not in the roster
send_message_to(users, sender, recipient, text, ts) ==
    IF ~HasUser(users, recipient) \/ send_packet_raises(ts, DictGet(users, recipient))
    THEN [raised |-> TRUE, sent |-> <<>>]
    ELSE [raised |-> FALSE,
          sent |-> Written(ts, DictGet(users, recipient), MessagePacket(sender, text))]

\* ServerApplication.on_user_joined: broadcast first, then add to the roster
on_user_joined(users, conn, name, ts) ==
    LET b == broadcast_message(users, None, JoinedText(name), ts)
    IN IF b.raised
       THEN [raised |-> TRUE, users |-> users, sent |-> b.sent]
       ELSE [raised |-> FALSE, users |-> DictSet(users, name, conn), sent |-> b.sent]

\* ServerApplication.on_user_left: del raises KeyError for a name not in the roster
on_user_left(users, name, err, ts) ==
    IF ~HasUser(users, name)
    THEN [raised |-> TRUE, users |-> users, sent |-> <<>>]
    ELSE LET b == broadcast_message(DictDel(users, name), None,
                                     IF err = NoErr THEN LeftText(name) ELSE LostText(name),
                                     ts)
         IN [raised |-> b.raised, users |-> DictDel(users, name), sent |-> b.sent]

(* ------------------------------------------------- server/command_handlers *)
\* str.strip() with no argument removes whitespace from both ends
Whitespace == (9..13) \cup (28..32)

RECURSIVE lstrip(_)
lstrip(text) ==
    IF text # <<>> /\ Head(text) \in Whitespace THEN lstrip(Tail(text)) ELSE text

RECURSIVE rstrip(_)
rstrip(text) ==
    IF text # <<>> /\ text[Len(text)] \in Whitespace
    THEN rstrip(SubSeq(text, 1, Len(text) - 1)) ELSE text

strip(text) == rstrip(lstrip(text))

\* text.split(" ")[0]: the characters before the first space
RECURSIVE first_word(_)
first_word(text) ==
    IF text = <<>> \/ Head(text) = 32 THEN <<>> ELSE <<Head(text)>> \o first_word(Tail(text))

\* main.py:60-61: parsed_command[0][1:]
parsed_command(text) ==
    LET word == first_word(strip(text)) IN IF word = <<>> THEN <<>> ELSE Tail(word)

\* the commands registered with register_command_handler: "list" and "ping"
COMMAND_HANDLER_MAP == {<<108, 105, 115, 116>>, <<112, 105, 110, 103>>}

\* ", ".join(connected_users.keys())
RECURSIVE join_names(_, _)
join_names(users, i) ==
    IF i > Len(users) THEN <<>>
    ELSE IF i = Len(users) THEN users[i].name
    ELSE users[i].name \o <<44, 32>> \o join_names(users, i + 1)

\* ListCommandHandler: f"Connected users: {...}"
ListText(users) ==
    <<67, 111, 110, 110, 101, 99, 116, 101, 100, 32, 117, 115, 101, 114, 115, 58, 32>>
    \o join_names(users, 1)

\* PingCommandHandler: a line of pong_messages.txt, stripped; the file is data of
\* the deployment and this is the line drawn
PongText == <<112, 111, 110, 103>>

\* CommandHandler.handle_command of the two registered handlers
handle_command(users, command, sender, ts) ==
    send_message_to(users, None, sender,
                    IF command = <<108, 105, 115, 116>> THEN ListText(users) ELSE PongText, ts)

(* ------------------------------------------------ server/main: the messages *)
startswith_slash(text) == text # <<>> /\ Head(text) = 47

\* ServerApplication.on_message_received, its body: a command is answered to its
\* sender alone, any other text is broadcast
on_message_received(users, sender, text, ts) ==
    IF startswith_slash(text)
    THEN IF parsed_command(text) \in COMMAND_HANDLER_MAP
         THEN handle_command(users, parsed_command(text), sender, ts)
         ELSE send_message_to(users, None, sender, InvalidCommandText, ts)
    ELSE broadcast_message(users, sender, text, ts)

\* packet_handlers.py:81 emits message_received with (sender_username, message)
EmitArgs_message_received == 2
\* main.py:55 on_message_received takes (_protocol, sender, message)
Params_on_message_received == 3

\* ServerApplication.on_message_received, as called by emit: Python raises
\* TypeError before the body runs when the argument count is not the parameters'
on_message_received_raises == EmitArgs_message_received # Params_on_message_received

(* ------------------------------------------------- server/server_networking *)
\* only the oldest connection is asked for its username
username_is_taken_first(name) ==
    Len(connections) > 0 /\ username[connections[1]] = name

\* ServerNetworking.username_is_taken
username_is_taken(name) == \E i \in 1..Len(connections) : username[connections[i]] = name

InConnections(c) == \E i \in 1..Len(connections) : connections[i] = c

(* ------------------------------------------------ shared/utils/event_emitter *)
\* One EventEmitter with the events of ServerNetworking that have a sender and
\* a leaver.  A callback is a number; whether a listener returns or raises when
\* it is invoked is the listener's affair and is drawn at each emission.
ValueError == "ValueError"
KeyError == "KeyError"
ListenerError == "Exception"

Events == {"user_joined", "user_left"}
NoEvent == "no_such_event"
Callbacks == 1..NCallbacks

\* EventEmitter.__init__: an empty deque for each event
EventEmitter(events) == [e \in events |-> <<>>]

\* callback in self._listeners[event]
contains(q, callback) == \E i \in 1..Len(q) : q[i] = callback

\* deque.remove: the first occurrence goes
remove(q, callback) ==
    LET i == CHOOSE k \in 1..Len(q) : q[k] = callback /\ \A j \in 1..(k - 1) : q[j] # callback
    IN SubSeq(q, 1, i - 1) \o SubSeq(q, i + 1, Len(q))

\* an on that appends the callback whether it is registered or not
on_appends_always(listeners, event, callback) ==
    IF event \notin DOMAIN listeners THEN [raised |-> ValueError, listeners |-> listeners]
    ELSE [raised |-> NoErr,
          listeners |-> [listeners EXCEPT ![event] = Append(@, callback)]]

\* EventEmitter.on
on(listeners, event, callback) ==
    IF event \notin DOMAIN listeners THEN [raised |-> ValueError, listeners |-> listeners]
    ELSE IF contains(listeners[event], callback)
    THEN [raised |-> NoErr, listeners |-> listeners]
    ELSE [raised |-> NoErr,
          listeners |-> [listeners EXCEPT ![event] = Append(@, callback)]]

\* EventEmitter.off
off(listeners, event, callback) ==
    IF event \notin DOMAIN listeners THEN [raised |-> ValueError, listeners |-> listeners]
    ELSE IF ~contains(listeners[event], callback)
    THEN [raised |-> ValueError, listeners |-> listeners]
    ELSE [raised |-> NoErr,
          listeners |-> [listeners EXCEPT ![event] = remove(@, callback)]]

\* the for loop of emit over q from position i on: the listeners it invokes, in
\* order, until one of them raises (the callbacks in raising do)
RECURSIVE EmitLoop(_, _, _)
EmitLoop(q, raising, i) ==
    IF i > Len(q) THEN [raised |-> NoErr, invoked |-> <<>>]
    ELSE IF q[i] \in raising THEN [raised |-> ListenerError, invoked |-> <<q[i]>>]
    ELSE LET r == EmitLoop(q, raising, i + 1)
         IN [raised |-> r.raised, invoked |-> <<q[i]>> \o r.invoked]

\* EventEmitter.emit: self._listeners[event] raises KeyError for an unknown event
emit(listeners, event, raising) ==
    IF event \notin DOMAIN listeners THEN [raised |-> KeyError, invoked |-> <<>>]
    ELSE EmitLoop(listeners[event], raising, 1)

(* ------------------------------------------------------------------ Init *)
\* the values --password can give: no option (None), --password "" and a word
ServerPasswords == {None, Empty, Pw}

\* the server and the client's protocol as constructed
InitProgram ==
    /\ tstate = [c \in Conns |-> "new"]
    /\ pendErr = [c \in Conns |-> NoErr]
    /\ perror = [c \in Conns |-> NoErr]
    /\ buffer = [c \in Conns |-> 0]
    /\ cur = 0
    /\ connections = <<>>
    /\ username = [c \in Conns |-> None]
    /\ connection_time = [c \in Conns |-> 0]
    /\ last_heartbeat = [c \in Conns |-> NoTime]
    /\ connected_users = <<>>
    /\ server_password \in ServerPasswords
    /\ monitor = "running"
    /\ now = 0
    /\ nRecv = 0
    /\ joined = [c \in Conns |-> 0]
    /\ left = [c \in Conns |-> 0]
    /\ handled = [conn |-> 0, packet |-> Pkt(0, None, None, None), response |-> NoResponse]
    /\ lastLeftErr = [c \in Conns |-> NoErr]
    /\ graceful = [c \in Conns |-> FALSE]
    /\ overdue = [c \in Conns |-> FALSE]
    /\ sent = <<>>
    /\ proto = [transport |-> "none", pending |-> NoErr, closed |-> TRUE, error |-> NoErr,
                buffer |-> 0, future_responses |-> <<>>]
    /\ running = FALSE
    /\ futures = [w \in 1..MaxCalls |-> [state |-> "none", result |-> 0, exception |-> NoErr]]
    /\ seen = [op |-> "init", responses |-> 0, unsolicited |-> 0, inbound |-> 0,
               delivered |-> 0, lost |-> 0, lostErr |-> NoErr, written |-> 0,
               callAt |-> [w \in 1..MaxCalls |-> 0], firstErr |-> NoErr,
               raised |-> NoErr, closeCalls |-> 0, closeStarted |-> 0]
    /\ client = [connection |-> FALSE, username |-> None, heartbeat_task |-> "none",
                 transport |-> "none", pending |-> NoErr, error |-> NoErr,
                 waiting |-> FALSE, join |-> "idle", name |-> None, cancelled |-> FALSE,
                 wake_first |-> FALSE,
                 result |-> [code |-> NoResponse, exception |-> NoErr],
                 join_error |-> NoErr, emitted |-> 0, emitted_err |-> NoErr,
                 explicit |-> FALSE, logout |-> FALSE, beats |-> 0, stops |-> 0,
                 op |-> "init"]
    /\ emitter = [listeners |-> EventEmitter(Events), op |-> "init", event |-> "",
                  callback |-> 0, invoked |-> <<>>, raised |-> NoErr]

\* a server started without a password or with a word as its password
Init == InitProgram /\ codec = Reading(<<>>) /\ server_password \in {None, Pw}

\* a server started with any of the passwords
InitPassword == InitProgram /\ codec = Reading(<<>>)

(* ------------------------------------------------------ transport events *)
\* ChatProtocol.connection_made and ServerNetworking.on_new_connection
ConnectionMade(c) ==
    /\ UNCHANGED <<cliVars, codVars, joinVars, emitVars>>
    /\ cur = 0
    /\ tstate[c] = "new"
    /\ tstate' = [tstate EXCEPT ![c] = "open"]
    /\ buffer' = [buffer EXCEPT ![c] = 0]
    /\ connections' = Append(connections, c)
    /\ username' = [username EXCEPT ![c] = None]
    /\ connection_time' = [connection_time EXCEPT ![c] = now]
    /\ last_heartbeat' = [last_heartbeat EXCEPT ![c] = NoTime]
    /\ sent' = <<>>
    /\ UNCHANGED <<pendErr, perror, cur, connected_users, server_password, monitor, now,
                   obsVars>>

\* the peer closes its end (eof_received returns False: the transport closes) or
\* the socket fails; connection_lost is called later with that exception
PeerClose(c, err) ==
    /\ UNCHANGED <<cliVars, codVars, joinVars, emitVars>>
    /\ cur = 0
    /\ tstate[c] = "open"
    /\ tstate' = [tstate EXCEPT ![c] = "closing"]
    /\ pendErr' = [pendErr EXCEPT ![c] = err]
    /\ sent' = <<>>
    /\ UNCHANGED <<perror, buffer, cur, srvVars, obsVars>>

\* ChatProtocol.data_received: the bytes join the buffer and the loop starts.
\* The read holds n complete packets; which packets they are is the peer's choice
\* and is drawn when packet_factory decodes each.
DataReceived(c, n) ==
    /\ UNCHANGED <<cliVars, codVars, joinVars, emitVars>>
    /\ cur = 0
    /\ tstate[c] = "open"
    /\ nRecv + n <= MaxPkts
    /\ buffer' = [buffer EXCEPT ![c] = n]
    /\ cur' = c
    /\ sent' = <<>>
    /\ UNCHANGED <<tstate, pendErr, perror, srvVars, obsVars>>

\* the loop's step past one packet: buffer = buffer[length:], and the loop ends
\* when packet_factory finds no further packet
NextPacket(c, p, code) ==
    /\ buffer' = [buffer EXCEPT ![c] = @ - 1]
    /\ cur' = IF buffer[c] = 1 THEN 0 ELSE c
    /\ nRecv' = nRecv + 1
    /\ handled' = [conn |-> c, packet |-> p, response |-> code]

\* packet_factory returns a packet of the given type from the buffer of c
Handling(c, p, type) ==
    /\ cur = c
    /\ buffer[c] > 0
    /\ p.type = type

\* data_received when packet_factory raises a BaseProtocolError
CodecErrorStep(c, p) ==
    /\ UNCHANGED <<cliVars, codVars, joinVars, emitVars>>
    /\ Handling(c, p, UNKNOWN_TAG)
    /\ perror' = [perror EXCEPT ![c] = CodecError]
    /\ tstate' = [tstate EXCEPT ![c] = "closing"]
    /\ cur' = 0
    /\ nRecv' = nRecv + 1
    /\ handled' = [conn |-> c, packet |-> p, response |-> NoResponse]
    /\ sent' = <<>>
    /\ UNCHANGED <<pendErr, buffer, srvVars, joined, left, lastLeftErr, graceful, overdue>>

(* ---------------------------------------------------- server/packet_handlers *)
\* Each handler below is ServerNetworking.on_new_packet for one packet type: the
\* handler's body, and close_connection when an exception leaves it.

\* the password is compared before the username is looked up
password_checked_first(p) ==
    IF ~valid_username(p.username) THEN INVALID_USERNAME
    ELSE IF p.password # server_password THEN WRONG_PASSWORD
    ELSE IF username_is_taken(p.username) THEN TAKEN_USERNAME
    ELSE OK

\* LoginPacketHandler.handle_packet: the response code it writes
LoginResponse(p) ==
    IF ~valid_username(p.username) THEN INVALID_USERNAME
    ELSE IF username_is_taken(p.username) THEN TAKEN_USERNAME
    ELSE IF p.password # server_password THEN WRONG_PASSWORD
    ELSE OK

LoginPacketHandler(c, p) ==
    /\ UNCHANGED <<cliVars, codVars, joinVars, emitVars>>
    /\ Handling(c, p, LOGIN)
    /\ LET code == LoginResponse(p)
           j == on_user_joined(connected_users, c, p.username, tstate)
       IN /\ NextPacket(c, p, code)
          /\ IF code = OK
             THEN /\ username' = [username EXCEPT ![c] = p.username]
                  /\ joined' = [joined EXCEPT ![c] = @ + 1]
                  /\ connected_users' = j.users
                  /\ tstate' = IF j.raised THEN close_connection(tstate, c) ELSE tstate
                  /\ sent' = j.sent
             ELSE /\ sent' = <<>>
                  /\ UNCHANGED <<username, joined, connected_users, tstate>>
    /\ UNCHANGED <<pendErr, perror, connections, connection_time, last_heartbeat,
                   server_password, monitor, now, left, lastLeftErr, graceful, overdue>>

\* MessagePacketHandler.handle_packet
MessagePacketHandler(c, p) ==
    /\ UNCHANGED <<cliVars, codVars, joinVars, emitVars>>
    /\ Handling(c, p, MESSAGE)
    /\ LET sender_username == username[c]
           r == on_message_received(connected_users, sender_username, p.message, tstate)
       IN IF ~valid_message(p.message) \/ sender_username = None
          THEN /\ NextPacket(c, p, INVALID_MESSAGE)
               /\ sent' = <<>>
               /\ UNCHANGED tstate
          ELSE /\ NextPacket(c, p, OK)
               /\ IF on_message_received_raises
                  THEN /\ sent' = <<>>
                       /\ tstate' = close_connection(tstate, c)
                  ELSE /\ sent' = r.sent
                       /\ tstate' = IF r.raised THEN close_connection(tstate, c) ELSE tstate
    /\ UNCHANGED <<pendErr, perror, srvVars, joined, left, lastLeftErr, graceful, overdue>>

\* a heartbeat handler that answers with a RESPONSE as the LOGIN handler does
heartbeat_answered(c, p) ==
    /\ UNCHANGED <<cliVars, codVars, joinVars, emitVars>>
    /\ Handling(c, p, HEARTBEAT)
    /\ last_heartbeat' = [last_heartbeat EXCEPT ![c] = now]
    /\ NextPacket(c, p, OK)
    /\ sent' = <<>>
    /\ UNCHANGED <<tstate, pendErr, perror, connections, username, connection_time,
                   connected_users, server_password, monitor, now, joined, left,
                   lastLeftErr, graceful, overdue>>

\* HeartbeatPacketHandler.handle_packet
HeartbeatPacketHandler(c, p) ==
    /\ UNCHANGED <<cliVars, codVars, joinVars, emitVars>>
    /\ Handling(c, p, HEARTBEAT)
    /\ last_heartbeat' = [last_heartbeat EXCEPT ![c] = now]
    /\ NextPacket(c, p, NoResponse)
    /\ sent' = <<>>
    /\ UNCHANGED <<tstate, pendErr, perror, connections, username, connection_time,
                   connected_users, server_password, monitor, now, joined, left,
                   lastLeftErr, graceful, overdue>>

\* LogoutPacketHandler.handle_packet: when the user_left listener raises, the
\* username is not cleared and on_new_packet closes the connection
LogoutPacketHandler(c, p) ==
    /\ UNCHANGED <<cliVars, codVars, joinVars, emitVars>>
    /\ Handling(c, p, LOGOUT)
    /\ LET l == on_user_left(connected_users, username[c], NoErr, tstate)
       IN IF username[c] # None
          THEN /\ left' = [left EXCEPT ![c] = @ + 1]
               /\ sent' = l.sent
               /\ lastLeftErr' = [lastLeftErr EXCEPT ![c] = NoErr]
               /\ graceful' = [graceful EXCEPT ![c] = TRUE]
               /\ connected_users' = l.users
               /\ username' = IF l.raised THEN username ELSE [username EXCEPT ![c] = None]
               /\ tstate' = close_connection(tstate, c)
          ELSE /\ sent' = <<>>
               /\ UNCHANGED <<left, lastLeftErr, graceful, connected_users, username, tstate>>
    /\ NextPacket(c, p, NoResponse)
    /\ UNCHANGED <<pendErr, perror, connections, connection_time, last_heartbeat,
                   server_password, monitor, now, joined, overdue>>

\* get_packet_handler finds no handler for a RESPONSE packet: the KeyError reaches
\* on_new_packet's except Exception, which closes the connection
NoHandlerStep(c, p) ==
    /\ UNCHANGED <<cliVars, codVars, joinVars, emitVars>>
    /\ Handling(c, p, RESPONSE)
    /\ tstate' = close_connection(tstate, c)
    /\ NextPacket(c, p, NoResponse)
    /\ sent' = <<>>
    /\ UNCHANGED <<pendErr, perror, srvVars, joined, left, lastLeftErr, graceful, overdue>>

\* ChatProtocol.connection_lost and ServerNetworking.on_connection_close: when the
\* user_left listener raises, the connection stays in connections.  del
\* connections[protocol] drops the Connection object with its fields.
ConnectionLost(c) ==
    /\ UNCHANGED <<cliVars, codVars, joinVars, emitVars>>
    /\ cur = 0
    /\ tstate[c] = "closing"
    /\ LET ts == [tstate EXCEPT ![c] = "lost"]
           err == IF perror[c] # NoErr THEN perror[c] ELSE pendErr[c]
           left_err == IF err # NoErr THEN err ELSE ConnectionClosedError
           l == on_user_left(connected_users, username[c], left_err, ts)
           deleted == username[c] = None \/ ~l.raised
       IN /\ tstate' = ts
          /\ IF username[c] # None
             THEN /\ left' = [left EXCEPT ![c] = @ + 1]
                  /\ lastLeftErr' = [lastLeftErr EXCEPT ![c] = left_err]
                  /\ connected_users' = l.users
                  /\ sent' = l.sent
             ELSE /\ sent' = <<>>
                  /\ UNCHANGED <<left, lastLeftErr, connected_users>>
          /\ IF deleted
             THEN /\ connections' = SelectSeq(connections, LAMBDA d : d # c)
                  /\ username' = [username EXCEPT ![c] = None]
                  /\ connection_time' = [connection_time EXCEPT ![c] = 0]
                  /\ last_heartbeat' = [last_heartbeat EXCEPT ![c] = NoTime]
             ELSE UNCHANGED <<connections, username, connection_time, last_heartbeat>>
    /\ UNCHANGED <<pendErr, perror, buffer, cur, server_password, monitor, now, nRecv,
                   joined, handled, graceful, overdue>>

(* -------------------------------------------------------- heartbeat monitor *)
\* the properties and attributes a ChatProtocol object has (chat_protocol.py)
ChatProtocolAttributes == {"transport", "buffer", "is_closed", "_error",
                           "_future_responses", "_closed_event", "_listeners"}

HeartbeatTimeout == 15

\* Connection.is_alive, lines 37-40: the age of the latest sign of life
Delta(c) == IF last_heartbeat[c] # NoTime THEN now - last_heartbeat[c]
            ELSE now - connection_time[c]

\* an is_alive that takes every logged-in connection for dead
is_alive_never(c, name, ts) ==
    IF name = None THEN "UserNotLoggedIn" ELSE "False"

\* Connection.is_alive: "True", "False", or the exception it raises.  It reads
\* protocol.is_connected, which a ChatProtocol does not have
is_alive(c, name, ts) ==
    IF name = None THEN "UserNotLoggedIn"
    ELSE IF "is_connected" \notin ChatProtocolAttributes THEN "AttributeError"
    ELSE IF is_closed(ts, c) THEN "ConnectionClosedError"
    ELSE IF Delta(c) <= HeartbeatTimeout THEN "True"
    ELSE "False"

\* ServerNetworking.monitor_heartbeats: the for loop of one tick over the
\* connections from position i on.  m carries what the loop changes.  An exception
\* that is no CancelledError leaves the loop and ends the task.
RECURSIVE MonitorLoop(_, _)
MonitorLoop(m, i) ==
    IF i > Len(connections) THEN m
    ELSE LET c == connections[i]
             alive == is_alive(c, m.username[c], m.tstate)
             l == on_user_left(m.users, m.username[c], ConnectionClosedError, m.tstate)
         IN IF m.username[c] = None \/ alive = "True" THEN MonitorLoop(m, i + 1)
            ELSE IF alive # "False"
            THEN [m EXCEPT !.monitor = "crashed",
                           !.overdue[c] = @ \/ Delta(c) > HeartbeatTimeout]
            ELSE IF l.raised
            THEN [m EXCEPT !.monitor = "crashed",
                           !.overdue[c] = TRUE,
                           !.left[c] = @ + 1,
                           !.lastLeftErr[c] = ConnectionClosedError,
                           !.users = l.users,
                           !.sent = @ \o l.sent]
            ELSE MonitorLoop([m EXCEPT !.overdue[c] = TRUE,
                                       !.left[c] = @ + 1,
                                       !.lastLeftErr[c] = ConnectionClosedError,
                                       !.users = l.users,
                                       !.sent = @ \o l.sent,
                                       !.username[c] = None,
                                       !.tstate = close_connection(@, c)], i + 1)

MonitorTick ==
    /\ UNCHANGED <<cliVars, codVars, joinVars, emitVars>>
    /\ cur = 0
    /\ monitor = "running"
    /\ LET m == MonitorLoop([monitor |-> monitor, overdue |-> overdue, left |-> left,
                             lastLeftErr |-> lastLeftErr, users |-> connected_users,
                             username |-> username, tstate |-> tstate,
                             sent |-> <<>>], 1)
       IN /\ monitor' = m.monitor
          /\ overdue' = m.overdue
          /\ left' = m.left
          /\ lastLeftErr' = m.lastLeftErr
          /\ connected_users' = m.users
          /\ username' = m.username
          /\ tstate' = m.tstate
          /\ sent' = m.sent
    /\ UNCHANGED <<pendErr, perror, buffer, cur, connections, connection_time,
                   last_heartbeat, server_password, now, nRecv, joined, handled, graceful>>

\* time passes
AdvanceTime ==
    /\ UNCHANGED <<cliVars, codVars, joinVars, emitVars>>
    /\ cur = 0
    /\ now + TimeStep <= MaxTime
    /\ now' = now + TimeStep
    /\ sent' = <<>>
    /\ UNCHANGED <<netVars, connections, username, connection_time, last_heartbeat,
                   connected_users, server_password, monitor, obsVars>>

(* ------------------------------------------------------------------ Next *)
Next ==
    \/ \E c \in Conns : ConnectionMade(c)
    \/ \E c \in Conns : \E err \in {NoErr, TransportError} : PeerClose(c, err)
    \/ \E c \in Conns : \E n \in 1..MaxChunk : DataReceived(c, n)
    \/ \E c \in Conns : \E p \in Packets : CodecErrorStep(c, p)
    \/ \E c \in Conns : \E p \in Packets : LoginPacketHandler(c, p)
    \/ \E c \in Conns : \E p \in Packets : MessagePacketHandler(c, p)
    \/ \E c \in Conns : \E p \in Packets : HeartbeatPacketHandler(c, p)
    \/ \E c \in Conns : \E p \in Packets : LogoutPacketHandler(c, p)
    \/ \E c \in Conns : \E p \in Packets : NoHandlerStep(c, p)
    \/ \E c \in Conns : ConnectionLost(c)
    \/ MonitorTick

Spec == Init /\ [][Next]_vars

\* the server under every password it can be started with
SpecPassword == InitPassword /\ [][Next]_vars

\* the clock advances as well: the runs in which heartbeats grow old
NextClock == Next \/ AdvanceTime

SpecClock == Init /\ [][NextClock]_vars

(* ----------------------------------------- the client's ChatProtocol object *)
\* One ChatProtocol as the client uses it (client_networking.py): the only caller
\* of send_packet_and_wait.  Its listeners (ClientNetworking.on_new_packet and
\* on_connection_lost) do not raise.  A future is named by the number of the
\* send_packet_and_wait call that made it; the value of a resolved future is the
\* number, in order of arrival, of the RESPONSE it was given.

\* deque.pop: the newest entry instead of the oldest
pop(q) == [item |-> q[Len(q)], rest |-> SubSeq(q, 1, Len(q) - 1)]

\* deque.popleft
popleft(q) == [item |-> Head(q), rest |-> Tail(q)]

\* ChatProtocol._resolve_next_response on the queue q and the futures fs: with
\* err = NoErr the next future gets the result, otherwise the exception
resolve_next_response(q, fs, err, result) ==
    IF q = <<>> THEN [q |-> q, fs |-> fs]
    ELSE LET f == popleft(q).item
         IN [q |-> popleft(q).rest,
             fs |-> IF fs[f].state = "cancelled" THEN fs
                    ELSE IF err # NoErr
                    THEN [fs EXCEPT ![f] = [state |-> "exception", result |-> 0,
                                            exception |-> err]]
                    ELSE [fs EXCEPT ![f] = [state |-> "result", result |-> result,
                                            exception |-> NoErr]]]

\* connection_lost with "if" in place of "while": one waiter only
FailOneWaiter(q, fs, err) == resolve_next_response(q, fs, err, 0)

\* the loop of connection_lost: while self._future_responses: resolve with err
RECURSIVE FailWaiters(_, _, _)
FailWaiters(q, fs, err) ==
    IF q = <<>> THEN [q |-> q, fs |-> fs]
    ELSE LET r == resolve_next_response(q, fs, err, 0)
         IN FailWaiters(r.q, r.fs, err)

\* every packet taken for a ResponsePacket
IsAnyPacket(p) == TRUE

\* packet_received emitted in an else branch of the isinstance test
EmitsUnlessResponse(p) == p.type # RESPONSE

\* data_received, line 46: isinstance(packet, ResponsePacket)
IsResponsePacket(p) == p.type = RESPONSE

\* data_received, line 48: packet_received is emitted for every packet
EmitsPacketReceived(p) == TRUE

\* connection_lost preferring the transport's err to the stored _error
transport_error_first(error, err) == IF err # NoErr THEN err ELSE error

\* connection_lost, lines 61-66: what the connection_lost listeners are given
connection_lost_error(error, err) == IF error # NoErr THEN error ELSE err

\* connection_lost, lines 63-71: what the queued futures are failed with
waiter_error(error, err) ==
    IF connection_lost_error(error, err) = NoErr THEN ConnectionClosedError
    ELSE connection_lost_error(error, err)

\* a protocol whose _closed_event is never set
protocol_never_closed(p) == FALSE

\* ChatProtocol.is_closed: self._closed_event.is_set()
protocol_is_closed(p) == p.closed

\* close_connection without the is_closing test
can_close_any(transport) == transport # "none"

\* close_connection, line 85: self.transport and not self.transport.is_closing()
can_close(transport) == transport = "open"

\* the first fatal error of the connection stays the first
FirstError(first, error) == IF first = NoErr THEN error ELSE first

\* ChatProtocol.connection_made
ProtoConnectionMade ==
    /\ ~running
    /\ proto.transport = "none"
    /\ proto' = [proto EXCEPT !.transport = "open", !.buffer = 0, !.closed = FALSE]
    /\ seen' = [seen EXCEPT !.op = "connection_made"]
    /\ UNCHANGED <<running, futures, serverVars, codVars, joinVars, emitVars>>

\* the server closes its end, or the socket fails
ProtoPeerClose(err) ==
    /\ ~running
    /\ proto.transport = "open"
    /\ proto' = [proto EXCEPT !.transport = "closing", !.pending = err]
    /\ seen' = [seen EXCEPT !.op = "peer_close", !.firstErr = FirstError(@, err)]
    /\ UNCHANGED <<running, futures, serverVars, codVars, joinVars, emitVars>>

\* close() left written bytes to flush and the flush fails: the transport will
\* call connection_lost with that error
ProtoWriteError ==
    /\ ~running
    /\ proto.transport = "closing"
    /\ proto.pending = NoErr
    /\ seen.written > 0
    /\ proto' = [proto EXCEPT !.pending = TransportError]
    /\ seen' = [seen EXCEPT !.op = "write_error", !.firstErr = FirstError(@, TransportError)]
    /\ UNCHANGED <<running, futures, serverVars, codVars, joinVars, emitVars>>

\* ChatProtocol.data_received: n complete packets have arrived
ProtoDataReceived(n) ==
    /\ ~running
    /\ proto.transport = "open"
    /\ seen.inbound + n <= MaxInbound
    /\ proto' = [proto EXCEPT !.buffer = n]
    /\ running' = TRUE
    /\ seen' = [seen EXCEPT !.op = "data_received"]
    /\ UNCHANGED <<futures, serverVars, codVars, joinVars, emitVars>>

\* one turn of the loop of data_received for a decoded packet p
ProtoPacketStep(p) ==
    /\ running
    /\ proto.buffer > 0
    /\ p.type # UNKNOWN_TAG
    /\ LET nth == seen.responses + 1
           r == IF IsResponsePacket(p)
                THEN resolve_next_response(proto.future_responses, futures, NoErr, nth)
                ELSE [q |-> proto.future_responses, fs |-> futures]
       IN /\ proto' = [proto EXCEPT !.future_responses = r.q, !.buffer = @ - 1]
          /\ futures' = r.fs
          /\ seen' = [seen EXCEPT
                 !.op = IF p.type = RESPONSE THEN "response" ELSE "packet",
                 !.inbound = @ + 1,
                 !.responses = IF p.type = RESPONSE THEN @ + 1 ELSE @,
                 !.unsolicited = IF p.type = RESPONSE /\ proto.future_responses = <<>>
                                 THEN @ + 1 ELSE @,
                 !.delivered = IF EmitsPacketReceived(p) THEN @ + 1 ELSE @]
    /\ running' = (proto.buffer > 1)
    /\ UNCHANGED <<serverVars, codVars, joinVars, emitVars>>

\* data_received when packet_factory raises a BaseProtocolError
ProtoCodecError(p) ==
    /\ running
    /\ proto.buffer > 0
    /\ p.type = UNKNOWN_TAG
    /\ proto' = [proto EXCEPT !.error = CodecError, !.transport = "closing"]
    /\ running' = FALSE
    /\ seen' = [seen EXCEPT !.op = "codec_error", !.inbound = @ + 1,
                            !.firstErr = FirstError(@, CodecError)]
    /\ UNCHANGED <<futures, serverVars, codVars, joinVars, emitVars>>

\* ChatProtocol.connection_lost(err): the listeners first, then the waiters
ProtoConnectionLost ==
    /\ ~running
    /\ proto.transport = "closing"
    /\ LET err == proto.pending
           surfaced == connection_lost_error(proto.error, err)
           failure == waiter_error(proto.error, err)
           r == FailWaiters(proto.future_responses, futures, failure)
       IN /\ proto' = [proto EXCEPT !.transport = "lost", !.closed = TRUE,
                                    !.future_responses = r.q]
          /\ futures' = r.fs
          /\ seen' = [seen EXCEPT !.op = "connection_lost", !.lost = @ + 1,
                                  !.lostErr = surfaced]
    /\ UNCHANGED <<running, serverVars, codVars, joinVars, emitVars>>

\* ChatProtocol.close_connection
ProtoCloseConnection ==
    /\ ~running
    /\ seen.closeCalls < MaxCloses
    /\ proto' = IF can_close(proto.transport) THEN [proto EXCEPT !.transport = "closing"]
                ELSE proto
    /\ seen' = [seen EXCEPT !.op = "close_connection", !.closeCalls = @ + 1,
                            !.closeStarted = IF can_close(proto.transport) THEN @ + 1 ELSE @]
    /\ UNCHANGED <<running, futures, serverVars, codVars, joinVars, emitVars>>

\* ChatProtocol.send_packet: raises ConnectionClosedError when closed, else writes
ProtoSendPacket ==
    /\ ~running
    /\ seen.written < MaxWrites
    /\ seen' = IF protocol_is_closed(proto)
               THEN [seen EXCEPT !.op = "send_packet", !.raised = ConnectionClosedError]
               ELSE [seen EXCEPT !.op = "send_packet", !.raised = NoErr, !.written = @ + 1]
    /\ UNCHANGED <<proto, running, futures, serverVars, codVars, joinVars, emitVars>>

\* ChatProtocol.send_packet_and_wait, up to its await: call number w
ProtoSendPacketAndWait(w) ==
    /\ ~running
    /\ seen.written < MaxWrites
    /\ futures[w].state = "none"
    /\ \A v \in 1..(w - 1) : futures[v].state # "none"
    /\ IF protocol_is_closed(proto)
       THEN /\ seen' = [seen EXCEPT !.op = "send_packet_and_wait",
                                    !.raised = ConnectionClosedError]
            /\ UNCHANGED <<proto, futures>>
       ELSE /\ futures' = [futures EXCEPT ![w] = [state |-> "pending", result |-> 0,
                                                  exception |-> NoErr]]
            /\ proto' = [proto EXCEPT !.future_responses = Append(@, w)]
            /\ seen' = [seen EXCEPT !.op = "send_packet_and_wait", !.raised = NoErr,
                                    !.written = @ + 1, !.callAt[w] = seen.responses]
    /\ UNCHANGED <<running, serverVars, codVars, joinVars, emitVars>>

\* ChatProtocol.send_packet_and_wait, call number w, when transport.write raises
\* inside send_packet: the future is in the queue already, send_packet turns the
\* exception into NetworkError, and it leaves send_packet_and_wait before the
\* await.  Nothing was written and nobody awaits the future.
ProtoWriteRaises(w) ==
    /\ ~running
    /\ ~protocol_is_closed(proto)
    /\ futures[w].state = "none"
    /\ \A v \in 1..(w - 1) : futures[v].state # "none"
    /\ futures' = [futures EXCEPT ![w] = [state |-> "pending", result |-> 0,
                                           exception |-> NoErr]]
    /\ proto' = [proto EXCEPT !.future_responses = Append(@, w)]
    /\ seen' = [seen EXCEPT !.op = "send_packet_and_wait", !.raised = NetworkError,
                            !.callAt[w] = seen.responses]
    /\ UNCHANGED <<running, serverVars, codVars, joinVars, emitVars>>

\* the task awaiting the future of call w is cancelled, which cancels the future
ProtoCancelWaiter(w) ==
    /\ ~running
    /\ futures[w].state = "pending"
    /\ futures' = [futures EXCEPT ![w].state = "cancelled"]
    /\ seen' = [seen EXCEPT !.op = "cancel"]
    /\ UNCHANGED <<proto, running, serverVars, codVars, joinVars, emitVars>>

InboundPackets == {Pkt(RESPONSE, None, None, None), Pkt(MESSAGE, None, None, Hi),
                   Pkt(UNKNOWN_TAG, None, None, None)}

NextProto ==
    \/ ProtoConnectionMade
    \/ \E err \in {NoErr, TransportError} : ProtoPeerClose(err)
    \/ ProtoWriteError
    \/ \E n \in 1..MaxChunk : ProtoDataReceived(n)
    \/ \E p \in InboundPackets : ProtoPacketStep(p)
    \/ \E p \in InboundPackets : ProtoCodecError(p)
    \/ ProtoConnectionLost
    \/ ProtoCloseConnection
    \/ ProtoSendPacket
    \/ \E w \in 1..MaxCalls : ProtoSendPacketAndWait(w)
    \/ \E w \in 1..MaxCalls : ProtoCancelWaiter(w)

\* the client side alone: the server half stays as constructed
InitProto == Init /\ server_password = None

SpecProto == InitProto /\ [][NextProto]_vars

\* the runs in which transport.write may raise as well
NextProtoWrite == NextProto \/ \E w \in 1..MaxCalls : ProtoWriteRaises(w)

SpecProtoWrite == InitProto /\ [][NextProtoWrite]_vars

(* ------------------------------------------- a ChatProtocol reading bytes *)
\* One ChatProtocol, after connection_made, whose peer sends the frames of
\* codec.frames; codec.wire is their concatenation and codec.fed the number of
\* bytes the transport has handed to data_received so far, in reads of any
\* size.  Once transport.close() was called the transport reads no more.

\* a frame the peer made with Packet.serialize
EncodedFrame(packet) == [bytes |-> serialize(packet).bytes, packet |-> packet]

\* bytes the peer wrote without the program's encoder
RawFrame(bytes) == [bytes |-> bytes, packet |-> NoPacket]

\* packets as the client and the server construct them; a message text and a
\* password may hold any character
WirePackets ==
    {HeartbeatPacket, LogoutPacket,
     LoginPacket(<<97>>, None), LoginPacket(<<97>>, <<112>>), LoginPacket(<<97>>, <<Pipe>>),
     MessagePacket(None, <<104>>), MessagePacket(<<97>>, <<104>>),
     MessagePacket(None, <<104, Pipe>>),
     ResponsePacket(OK), ResponsePacket(TAKEN_USERNAME)}

\* frames no encoder of the program makes: an unknown tag, a LOGIN and a MESSAGE
\* payload without '|', a RESPONSE with an unknown code, a HEARTBEAT with a payload
RawFrames ==
    {RawFrame(<<PROTOCOL_VERSION, UNKNOWN_TAG, 0, 0>>),
     RawFrame(<<PROTOCOL_VERSION, LOGIN, 0, 1, 97>>),
     RawFrame(<<PROTOCOL_VERSION, MESSAGE, 0, 1, 104>>),
     RawFrame(<<PROTOCOL_VERSION, RESPONSE, 0, 1, 7>>),
     RawFrame(<<PROTOCOL_VERSION, HEARTBEAT, 0, 1, 0>>)}

FramePool == {EncodedFrame(packet) : packet \in WirePackets} \cup RawFrames

\* the longest frame of the pool, and the most bytes one read can bring
LongestFrame ==
    CHOOSE n \in 0..64 : /\ \E f \in FramePool : Len(f.bytes) = n
                         /\ \A f \in FramePool : Len(f.bytes) <= n
MaxRead == MaxFrames * LongestFrame

RECURSIVE FrameSeqs(_)
FrameSeqs(n) ==
    IF n = 0 THEN {<<>>}
    ELSE FrameSeqs(n - 1) \cup
         {Append(fs, f) : fs \in {g \in FrameSeqs(n - 1) : Len(g) = n - 1}, f \in FramePool}

\* data_received keeping only the new bytes
replace_buffer(buf, data) == data

\* data_received, line 39: self.buffer += data
extend_buffer(buf, data) == buf \o data

\* an except clause that forgets the error
drop_error(e) == NoErr

\* data_received, line 53: self._error = e
stored_error(e) == e

\* ChatProtocol.data_received on the next n bytes of the wire
CodecDataReceived(n) ==
    /\ codec.transport = "open"
    /\ n <= Len(codec.wire) - codec.fed
    /\ LET data == SubSeq(codec.wire, codec.fed + 1, codec.fed + n)
           d == DrainBuffer(extend_buffer(codec.buffer, data), <<>>)
       IN codec' = [codec EXCEPT
              !.fed = @ + n,
              !.buffer = d.buffer,
              !.emitted = @ \o d.packets,
              !.error = IF d.error # NoErr THEN stored_error(d.error) ELSE @,
              !.transport = IF d.error # NoErr THEN "closing" ELSE @]
    /\ UNCHANGED <<serverVars, cliVars, joinVars, emitVars>>

\* the peer closes its end, or the socket fails
CodecPeerClose(err) ==
    /\ codec.transport = "open"
    /\ codec' = [codec EXCEPT !.transport = "closing", !.pending = err]
    /\ UNCHANGED <<serverVars, cliVars, joinVars, emitVars>>

\* ChatProtocol.connection_lost(err)
CodecConnectionLost ==
    /\ codec.transport = "closing"
    /\ codec' = [codec EXCEPT
           !.transport = "lost",
           !.lost = Append(@, connection_lost_error(codec.error, codec.pending))]
    /\ UNCHANGED <<serverVars, cliVars, joinVars, emitVars>>

NextCodec ==
    \/ \E n \in 1..MaxRead : CodecDataReceived(n)
    \/ \E err \in {NoErr, TransportError} : CodecPeerClose(err)
    \/ CodecConnectionLost

InitCodec ==
    /\ InitProgram
    /\ server_password = None
    /\ \E fs \in FrameSeqs(MaxFrames) : codec = Reading(fs)

SpecCodec == InitCodec /\ [][NextCodec]_vars

(* -------------------------------------------------- client/client_networking *)
\* One ClientNetworking object, the connection it opens and the join_server
\* coroutine ClientApplication.run awaits once.  The fields connection, username
\* and heartbeat_task are the object's; transport, pending and error are those of
\* the connection's ChatProtocol; waiting says that the future of the LOGIN is in
\* the protocol's queue; join is the place of the coroutine: "idle", "connecting"
\* (awaiting create_connection), "login" (awaiting the response), "resume" (its
\* wake-up is scheduled), "joined", "failed" (an exception left join_server),
\* "returned" (cancelled: join_server returned after disconnect); wake_first says
\* that the wake-up was scheduled before the transport began to close.  The rest
\* records what happened: the connection_lost events emitted upward, whether
\* disconnect was called from outside on_connection_lost, the LOGOUT written.

DestinationUnreachable == "DestinationUnreachable"
LoginError == "LoginError"
InvalidUsernameError == "InvalidUsernameError"
UsernameTakenError == "UsernameTakenError"
WrongPasswordError == "WrongPasswordError"

\* connection[1].is_closed
client_is_closed(cl) == cl.transport \in {"none", "lost"}

\* connection[0].is_closing()
is_closing(cl) == cl.transport \in {"closing", "lost"}

\* ClientNetworking.disconnect
disconnect(cl) ==
    IF ~cl.connection THEN cl
    ELSE [cl EXCEPT !.heartbeat_task = "none",
                    !.logout = @ \/ ~is_closing(cl),
                    !.transport = IF is_closing(cl) THEN @ ELSE "closing",
                    !.connection = FALSE,
                    !.username = None]

\* every close of the stream is reported upward
emits_on_every_close(cl) == TRUE

\* ClientNetworking.on_connection_lost, line 40: `if self.connection:`
emits_connection_lost(cl) == cl.connection

\* ClientNetworking.on_connection_lost
on_connection_lost(cl, err) ==
    IF emits_connection_lost(cl)
    THEN disconnect([cl EXCEPT !.emitted = @ + 1,
                               !.emitted_err = IF err # NoErr THEN err
                                               ELSE ConnectionClosedError])
    ELSE cl

\* ClientNetworking._login, lines 125-132: the exception for a response code
login_error(code) ==
    IF code = INVALID_USERNAME THEN InvalidUsernameError
    ELSE IF code = TAKEN_USERNAME THEN UsernameTakenError
    ELSE IF code = WRONG_PASSWORD THEN WrongPasswordError
    ELSE IF code # OK THEN LoginError
    ELSE NoErr

\* join_server's `except (OSError, socket.gaierror, ConnectionError)`
is_os_error(exception) == exception = TransportError

\* ClientApplication.run calls join_server; a new object is not connected, so the
\* "Already connected" test passes
JoinServer(name) ==
    /\ UNCHANGED <<serverVars, cliVars, codVars, emitVars>>
    /\ client.join = "idle"
    /\ ~(client.connection /\ ~client_is_closed(client))
    /\ client' = [client EXCEPT !.join = "connecting", !.name = name, !.op = "join_server"]

\* create_connection raises OSError: disconnect, then DestinationUnreachable
CreateConnectionFails ==
    /\ UNCHANGED <<serverVars, cliVars, codVars, emitVars>>
    /\ client.join = "connecting"
    /\ ~client.cancelled
    /\ client' = [disconnect(client) EXCEPT !.join = "failed",
                                            !.join_error = DestinationUnreachable,
                                            !.explicit = TRUE,
                                            !.op = "unreachable"]

\* create_connection returns: the listeners are registered, _login finds the
\* connection open and send_packet_and_wait writes the LOGIN and awaits its future
CreateConnectionDone ==
    /\ UNCHANGED <<serverVars, cliVars, codVars, emitVars>>
    /\ client.join = "connecting"
    /\ ~client.cancelled
    /\ client' = [client EXCEPT !.connection = TRUE, !.transport = "open",
                                !.waiting = TRUE, !.join = "login", !.op = "connected"]

\* the RESPONSE to the LOGIN arrives: the future gets its result and the wake-up
\* of the coroutine is scheduled
LoginResponseArrives(code) ==
    /\ UNCHANGED <<serverVars, cliVars, codVars, emitVars>>
    /\ client.transport = "open"
    /\ client.waiting
    /\ client' = [client EXCEPT !.waiting = FALSE, !.join = "resume",
                                !.wake_first = TRUE,
                                !.result = [code |-> code, exception |-> NoErr],
                                !.op = "response"]

\* the server closes the stream or the socket fails; connection_lost comes later
ClientPeerClose(err) ==
    /\ UNCHANGED <<serverVars, cliVars, codVars, emitVars>>
    /\ client.transport = "open"
    /\ client' = [client EXCEPT !.transport = "closing", !.pending = err, !.op = "peer_close"]

\* data_received meets bytes packet_factory rejects: _error is kept, the transport closed
ClientCodecError ==
    /\ UNCHANGED <<serverVars, cliVars, codVars, emitVars>>
    /\ client.transport = "open"
    /\ client' = [client EXCEPT !.transport = "closing", !.error = CodecError,
                                !.op = "codec_error"]

\* ChatProtocol.connection_lost: the listener on_connection_lost runs, then the
\* waiting future fails.  The loop runs its callbacks in the order they were
\* scheduled: a wake-up scheduled before the close runs before this callback.
ClientConnectionLost ==
    /\ UNCHANGED <<serverVars, cliVars, codVars, emitVars>>
    /\ client.transport = "closing"
    /\ ~(client.join = "resume" /\ client.wake_first)
    /\ LET err == connection_lost_error(client.error, client.pending)
           cl == on_connection_lost([client EXCEPT !.transport = "lost"], err)
       IN client' = IF client.waiting
                    THEN [cl EXCEPT !.waiting = FALSE, !.join = "resume",
                                    !.wake_first = FALSE,
                                    !.result = [code |-> NoResponse,
                                                exception |-> waiter_error(client.error,
                                                                           client.pending)],
                                    !.op = "connection_lost"]
                    ELSE [cl EXCEPT !.op = "connection_lost"]

\* the task awaiting join_server is cancelled: CancelledError is thrown into the
\* coroutine at its await
CancelJoin ==
    /\ UNCHANGED <<serverVars, cliVars, codVars, emitVars>>
    /\ client.join \in {"connecting", "login", "resume"}
    /\ ~client.cancelled
    /\ client' = [client EXCEPT !.cancelled = TRUE, !.waiting = FALSE, !.join = "resume",
                                !.wake_first = IF client.join = "resume" THEN @
                                               ELSE client.transport # "closing",
                                !.op = "cancel"]

\* the coroutine wakes up in join_server: CancelledError, the exception of the
\* future, or the response code in _login
JoinResume ==
    /\ UNCHANGED <<serverVars, cliVars, codVars, emitVars>>
    /\ client.join = "resume"
    /\ LET r == client.result
       IN client' =
            IF client.cancelled
            THEN [disconnect(client) EXCEPT !.join = "returned", !.explicit = TRUE,
                                            !.op = "cancelled"]
            ELSE IF r.exception # NoErr
            THEN IF is_os_error(r.exception)
                 THEN [disconnect(client) EXCEPT !.join = "failed", !.explicit = TRUE,
                                                 !.join_error = DestinationUnreachable,
                                                 !.op = "login_lost"]
                 ELSE [client EXCEPT !.join = "failed", !.join_error = r.exception,
                                     !.op = "login_lost"]
            ELSE IF login_error(r.code) # NoErr
            THEN [client EXCEPT !.join = "failed", !.join_error = login_error(r.code),
                                !.op = "login_rejected"]
            ELSE [client EXCEPT !.username = client.name, !.heartbeat_task = "task",
                                !.join = "joined", !.op = "joined"]

\* ClientNetworking._send_heartbeat_periodically, one turn of its loop
HeartbeatStep ==
    /\ UNCHANGED <<serverVars, cliVars, codVars, emitVars>>
    /\ client.heartbeat_task = "task"
    /\ client.connection /\ ~client_is_closed(client)
    /\ client.beats < MaxBeats
    /\ client' = [client EXCEPT !.beats = @ + 1, !.op = "heartbeat"]

\* ClientApplication.stop calls disconnect: after join_server has ended, or from
\* the task the connection_lost listener of the application starts
AppDisconnect ==
    /\ UNCHANGED <<serverVars, cliVars, codVars, emitVars>>
    /\ client.join \in {"joined", "failed", "returned"} \/ client.emitted > 0
    /\ client.stops < MaxStops
    /\ client' = [disconnect(client) EXCEPT !.explicit = TRUE, !.stops = @ + 1,
                                            !.op = "disconnect"]

NextClient ==
    \/ \E name \in {Ali, Ab} : JoinServer(name)
    \/ CreateConnectionFails
    \/ CreateConnectionDone
    \/ \E code \in ResponseCodes : LoginResponseArrives(code)
    \/ \E err \in {NoErr, TransportError} : ClientPeerClose(err)
    \/ ClientCodecError
    \/ ClientConnectionLost
    \/ CancelJoin
    \/ JoinResume
    \/ HeartbeatStep
    \/ AppDisconnect

InitClient == Init /\ server_password = None

SpecClient == InitClient /\ [][NextClient]_vars

(* ------------------------------------------- the EventEmitter on its own *)
EmitterOn(event, callback) ==
    /\ emitter' = [listeners |-> on(emitter.listeners, event, callback).listeners,
                   op |-> "on", event |-> event, callback |-> callback,
                   invoked |-> <<>>,
                   raised |-> on(emitter.listeners, event, callback).raised]
    /\ UNCHANGED <<serverVars, cliVars, codVars, joinVars>>

EmitterOff(event, callback) ==
    /\ emitter' = [listeners |-> off(emitter.listeners, event, callback).listeners,
                   op |-> "off", event |-> event, callback |-> callback,
                   invoked |-> <<>>,
                   raised |-> off(emitter.listeners, event, callback).raised]
    /\ UNCHANGED <<serverVars, cliVars, codVars, joinVars>>

EmitterEmit(event, raising) ==
    /\ emitter' = [listeners |-> emitter.listeners,
                   op |-> "emit", event |-> event, callback |-> 0,
                   invoked |-> emit(emitter.listeners, event, raising).invoked,
                   raised |-> emit(emitter.listeners, event, raising).raised]
    /\ UNCHANGED <<serverVars, cliVars, codVars, joinVars>>

NextEmitter ==
    \/ \E event \in Events \cup {NoEvent} : \E callback \in Callbacks :
           EmitterOn(event, callback)
    \/ \E event \in Events \cup {NoEvent} : \E callback \in Callbacks :
           EmitterOff(event, callback)
    \/ \E event \in Events \cup {NoEvent} : \E raising \in SUBSET Callbacks :
           EmitterEmit(event, raising)

\* the emitter alone: the rest stays as constructed
InitEmitter == Init /\ server_password = None

SpecEmitter == InitEmitter /\ [][NextEmitter]_vars

(* ---------------------------------------------------------------- claims *)
ValidNames == {Ali, Bob}

\* the server holds connection c as logged-in under name
LoggedInAs(c, name) == InConnections(c) /\ username[c] = name

InRoster(name, c) ==
    \E i \in 1..Len(connected_users) :
        connected_users[i].name = name /\ connected_users[i].conn = c

\* the step took a packet of connection c out of its buffer
Took(c) == nRecv' = nRecv + 1 /\ handled'.conn = c

\* C1: of the connections that send LOGIN with one valid username and the server's
\* password, one at a time holds the name: a LOGIN for a name no connection holds
\* is answered OK and makes its connection the only holder, and a LOGIN for a name
\* some connection holds is answered TAKEN_USERNAME and changes no username.
C1_OneHolder ==
    \A name \in ValidNames : \A c, d \in Conns :
        LoggedInAs(c, name) /\ LoggedInAs(d, name) => c = d

C1_LoginStep ==
    \A c \in Conns : \A name \in ValidNames :
        Took(c) /\ handled'.packet = Pkt(LOGIN, name, server_password, None) =>
            IF \E d \in Conns : LoggedInAs(d, name)
            THEN handled'.response = TAKEN_USERNAME /\ username' = username
            ELSE /\ handled'.response = OK
                 /\ LoggedInAs(c, name)'
                 /\ \A d \in Conns \ {c} : ~LoggedInAs(d, name)'

C1_LoginAtomic == []C1_OneHolder /\ [][C1_LoginStep]_vars

\* two open connections have sent the same LOGIN: the first holds the name, the
\* second has just been answered TAKEN_USERNAME
C1_Witness ==
    /\ handled.conn = 2
    /\ handled.packet = Pkt(LOGIN, Ali, server_password, None)
    /\ handled.response = TAKEN_USERNAME
    /\ LoggedInAs(1, Ali)
    /\ joined[1] = 1
    /\ joined[2] = 0
    /\ tstate[1] = "open"
    /\ tstate[2] = "open"

\* C2: the roster has an entry name -> connection iff that connection is
\* logged-in under that name.
C2_RosterIffLoggedIn ==
    \A name \in ValidNames : \A c \in Conns :
        InRoster(name, c) <=> LoggedInAs(c, name)

\* C3: once a connection has closed, user_left has been emitted for it once for
\* each user_joined emitted for it.
C3_LeftOncePerJoined ==
    \A c \in Conns : tstate[c] = "lost" => left[c] = joined[c]

\* C4: a LOGOUT from a logged-in connection emits one user_left, with no error,
\* and the close of the transport that follows emits no further user_left for
\* that connection.
C4_LogoutStep ==
    \A c \in Conns :
        Took(c) /\ handled'.packet.type = LOGOUT /\ username[c] # None =>
            left'[c] = left[c] + 1 /\ lastLeftErr'[c] = NoErr

C4_CloseStep ==
    \A c \in Conns :
        graceful[c] /\ tstate[c] = "closing" /\ tstate'[c] = "lost" => left'[c] = left[c]

C4_LogoutSingleFire == [][C4_LogoutStep /\ C4_CloseStep]_vars

\* C5: the monitor tick that meets a logged-in connection silent for more than
\* 15 s evicts it: user_left with a ConnectionClosedError, username cleared,
\* stream closed.
C5_TickEvicts ==
    [][\A c \in Conns :
          ~overdue[c] /\ overdue'[c] =>
              /\ left'[c] = left[c] + 1
              /\ lastLeftErr'[c] = ConnectionClosedError
              /\ username'[c] = None
              /\ tstate'[c] \in {"closing", "lost"}]_vars

Calls == 1..MaxCalls
Queue == proto.future_responses
InQueue(w) == \E i \in 1..Len(Queue) : Queue[i] = w
Resolved(w) == futures[w].state = "result"
ResponseArrives == seen'.op = "response" /\ seen'.responses = seen.responses + 1

\* C7: RESPONSEs complete send_packet_and_wait calls in FIFO order.  An inbound
\* RESPONSE that finds waiters completes the oldest call in the queue, and no
\* other, with that RESPONSE; results of two calls are in the order of the calls;
\* and while no RESPONSE arrived without a waiter, the k-th call holds the k-th
\* RESPONSE.
C7_Order ==
    /\ \A v, w \in Calls :
           v < w /\ Resolved(v) /\ Resolved(w) => futures[v].result < futures[w].result
    /\ seen.unsolicited = 0 => \A w \in Calls : Resolved(w) => futures[w].result = w
C7_ResponseStep ==
    ResponseArrives /\ Queue # <<>> =>
        LET w == Head(Queue)
        IN /\ \A i \in 1..Len(Queue) : w <= Queue[i]
           /\ proto'.future_responses = Tail(Queue)
           /\ \A v \in Calls \ {w} : futures'[v] = futures[v]
           /\ IF futures[w].state = "cancelled" THEN futures'[w] = futures[w]
              ELSE futures'[w].state = "result" /\ futures'[w].result = seen'.responses
C7_FifoCorrelation == []C7_Order /\ [][C7_ResponseStep]_vars
C7_Witness ==
    /\ Resolved(1) /\ futures[1].result = 1
    /\ Resolved(2) /\ futures[2].result = 2
    /\ seen.callAt[1] = 0 /\ seen.callAt[2] = 0

\* C8: every waiter that send_packet_and_wait queued is dequeued and completed
\* once.  A pending call is in the queue exactly once, a completed call is not in
\* the queue and its outcome never changes again, and once connection_lost has
\* run the queue is empty and no call is pending.
C8_Queue ==
    /\ \A w \in Calls :
           /\ futures[w].state = "pending" =>
                  Cardinality({i \in 1..Len(Queue) : Queue[i] = w}) = 1
           /\ futures[w].state \in {"none", "result", "exception"} => ~InQueue(w)
    /\ proto.transport = "lost" =>
           Queue = <<>> /\ \A w \in Calls : futures[w].state # "pending"
C8_CompletedOnce ==
    \A w \in Calls : futures[w].state \in {"result", "exception"} => futures'[w] = futures[w]
C8_WaitersCompletedOnce == []C8_Queue /\ [][C8_CompletedOnce]_vars
C8_Witness ==
    /\ proto.transport = "lost"
    /\ Resolved(1)
    /\ futures[2].state = "exception" /\ futures[3].state = "exception"

\* C9: send_packet and an inbound packet that is no RESPONSE leave the queue of
\* waiters and every waiter as they were; the queue gets shorter only on an
\* inbound RESPONSE or in connection_lost.
C9_Step ==
    /\ seen'.op \in {"send_packet", "packet"} =>
           proto'.future_responses = Queue /\ futures' = futures
    /\ Len(proto'.future_responses) < Len(Queue) =>
           seen'.op \in {"response", "connection_lost"}
C9_QueueFrame == [][C9_Step]_vars
C9_Witness ==
    /\ seen.op = "packet"
    /\ Queue = <<1, 2>>
    /\ seen.written = 3

\* C10: a RESPONSE that arrives while no call is waiting is handed to the
\* packet_received listeners, sets no error, closes nothing, resolves nothing,
\* and a call made afterwards is only ever resolved by a RESPONSE that arrived
\* after the call.
C10_Step ==
    ResponseArrives /\ Queue = <<>> =>
        /\ seen'.delivered = seen.delivered + 1
        /\ proto'.transport = proto.transport
        /\ proto'.error = proto.error
        /\ proto'.closed = proto.closed
        /\ proto'.future_responses = <<>>
        /\ futures' = futures
C10_NotHeldBack == \A w \in Calls : Resolved(w) => futures[w].result > seen.callAt[w]
C10_LateResponse == []C10_NotHeldBack /\ [][C10_Step]_vars
C10_Witness ==
    /\ seen.unsolicited >= 1
    /\ proto.transport = "open"
    /\ \E w \in Calls : Resolved(w) /\ seen.callAt[w] >= 1

\* C12: the error connection_lost hands to its listeners and to the waiters it
\* fails is the first fatal error of the connection, a codec error before a
\* transport error; without any error the listeners get None and the waiters a
\* ConnectionClosedError.
C12_Surfaced ==
    proto.transport = "lost" =>
        /\ seen.lostErr = seen.firstErr
        /\ proto.error # NoErr => seen.lostErr = proto.error
        /\ proto.error = NoErr => seen.lostErr = proto.pending
        /\ \A w \in Calls :
               futures[w].state = "exception" =>
                   futures[w].exception = IF seen.firstErr = NoErr
                                          THEN ConnectionClosedError ELSE seen.firstErr
C12_ErrorPrecedence == []C12_Surfaced
C12_Witness ==
    /\ proto.transport = "lost"
    /\ proto.error = CodecError /\ proto.pending = TransportError
    /\ seen.lostErr = CodecError
    /\ futures[1].state = "exception" /\ futures[1].exception = CodecError

\* C13: while the protocol is closed (before connection_made, after
\* connection_lost) send_packet and send_packet_and_wait raise
\* ConnectionClosedError, write nothing and queue no future.
SendStep == seen'.op \in {"send_packet", "send_packet_and_wait"} /\ seen' # seen
C13_Step ==
    proto.closed /\ SendStep =>
        /\ seen'.raised = ConnectionClosedError
        /\ seen'.written = seen.written
        /\ proto' = proto
        /\ futures' = futures
C13_ClosedSendFails == [][C13_Step]_vars
C13_Witness ==
    /\ seen.op = "send_packet_and_wait"
    /\ seen.raised = ConnectionClosedError
    /\ proto.transport = "lost"
    /\ seen.written = 1
    /\ futures[2].state = "none"

\* C14: close_connection emits no connection_lost and starts a transport close
\* only on an open transport, so at most once however often and whenever it is
\* called; connection_lost is emitted once for the stream, by connection_lost
\* itself.
C14_Counts ==
    /\ seen.closeStarted <= 1
    /\ seen.lost <= 1
    /\ proto.transport = "lost" <=> seen.lost = 1
C14_Step ==
    /\ seen'.op = "close_connection" /\ seen'.closeCalls = seen.closeCalls + 1 =>
           /\ seen'.lost = seen.lost
           /\ proto.transport # "open" => proto' = proto
           /\ proto.transport = "open" => proto'.transport = "closing"
    /\ seen'.lost # seen.lost => seen'.op = "connection_lost"
C14_CloseIdempotent == []C14_Counts /\ [][C14_Step]_vars
C14_Witness ==
    /\ seen.op = "close_connection"
    /\ seen.closeCalls = 2
    /\ seen.closeStarted = 1
    /\ proto.transport = "lost"
    /\ seen.lost = 1

(* the frames of the wire, as the claims about reading speak of them *)
FrameCount == Len(codec.frames)
Frame(i) == codec.frames[i]
\* the number of bytes of the wire up to the end of frame k
RECURSIVE EndOf(_)
EndOf(k) == IF k = 0 THEN 0 ELSE EndOf(k - 1) + Len(Frame(k).bytes)
\* frames 1..k were all made by Packet.serialize from a packet
Encoded(k) == \A i \in 1..k : Frame(i).packet # NoPacket
\* the packets of frames 1..k
PacketsTo(k) == [i \in 1..k |-> Frame(i).packet]
\* the bytes handed to data_received so far
FedBytes == SubSeq(codec.wire, 1, codec.fed)
FrameType(i) == Frame(i).bytes[2]
FramePayload(i) == SubSeq(Frame(i).bytes, HEADER_SIZE + 1, Len(Frame(i).bytes))
Pipes(payload) == Cardinality({i \in 1..Len(payload) : payload[i] = Pipe})
FirstPipe(payload) == CHOOSE k \in 1..Len(payload) :
                          payload[k] = Pipe /\ \A j \in 1..(k - 1) : payload[j] # Pipe
EmptyIsNone(x) == IF x = <<>> THEN None ELSE x

\* C11: every complete packet that has arrived is delivered to packet_received
\* once and in the order of the wire, whatever the sizes of the reads: when the
\* first k frames are encoded packets that have arrived whole, the first k
\* packets delivered are those packets, and no more packets are delivered than
\* frames have arrived.
C11_DeliveredInWireOrder ==
    /\ \A k \in 1..FrameCount :
           Encoded(k) /\ EndOf(k) <= codec.fed =>
               /\ Len(codec.emitted) >= k
               /\ \A i \in 1..k : codec.emitted[i] = Frame(i).packet
    /\ \A k \in 0..FrameCount :
           codec.fed < EndOf(k) => Len(codec.emitted) < k

\* C15: when the bytes that have arrived are n encoded packets followed by a
\* proper prefix of one more encoded packet, exactly those n packets were
\* emitted and the buffer holds exactly the prefix.
C15_PrefixKept ==
    \A n \in 0..(FrameCount - 1) :
        Encoded(n + 1) /\ EndOf(n) <= codec.fed /\ codec.fed < EndOf(n + 1) =>
            /\ codec.emitted = PacketsTo(n)
            /\ codec.buffer = SubSeq(codec.wire, EndOf(n) + 1, codec.fed)

\* C16: the bytes that have arrived, in whatever reads they came, leave the same
\* packets emitted and the same buffer as one data_received on all of them.
C16_ChunkingInvariant ==
    LET whole == DrainBuffer(extend_buffer(<<>>, FedBytes), <<>>)
    IN /\ codec.emitted = whole.packets
       /\ codec.buffer = whole.buffer
       /\ (codec.error # NoErr) = (whole.error # NoErr)
       /\ whole.error # NoErr => codec.error = whole.error
C16_Witness ==
    /\ FrameCount = 2
    /\ Encoded(2)
    /\ codec.fed = Len(codec.wire)
    /\ Len(codec.emitted) = 2
    /\ codec.emitted[1].type = LOGIN /\ codec.emitted[2].type = MESSAGE
    /\ codec.error = NoErr
    /\ codec.buffer = <<>>

\* C17: a packet serialized by the program and decoded again is the same
\* packet: the first frame, when it is an encoded packet that has arrived
\* whole, is delivered as the packet it was made from.
C17_RoundTrip ==
    FrameCount >= 1 /\ Encoded(1) /\ EndOf(1) <= codec.fed =>
        /\ codec.emitted # <<>>
        /\ Head(codec.emitted) = Frame(1).packet

\* C18: a LOGIN or MESSAGE payload without '|' and a RESPONSE payload whose
\* byte is no response code fail to decode with an InvalidPayloadError.
C18_InvalidPayloadKind ==
    /\ FrameCount >= 1
    /\ EndOf(1) <= codec.fed
    /\ \/ FrameType(1) \in {LOGIN, MESSAGE} /\ Pipes(FramePayload(1)) = 0
       \/ /\ FrameType(1) = RESPONSE
          /\ Len(FramePayload(1)) = 1
          /\ FramePayload(1)[1] \notin ResponseCodes
    => codec.emitted = <<>> /\ codec.error = InvalidPayloadError

\* C19: a LOGIN or MESSAGE payload with more than one '|' decodes, its first
\* field the bytes before the first '|' and its second field all the bytes
\* after it.
C19_SplitAtFirstPipe ==
    /\ FrameCount >= 1
    /\ EndOf(1) <= codec.fed
    /\ FrameType(1) \in {LOGIN, MESSAGE}
    /\ Pipes(FramePayload(1)) > 1
    => LET payload == FramePayload(1)
           k == FirstPipe(payload)
           first == SubSeq(payload, 1, k - 1)
           second == SubSeq(payload, k + 1, Len(payload))
       IN /\ codec.emitted # <<>>
          /\ Head(codec.emitted) =
                 IF FrameType(1) = LOGIN THEN LoginPacket(first, EmptyIsNone(second))
                 ELSE MessagePacket(EmptyIsNone(first), second)

\* C20: when the bytes at the head of the buffer cannot be decoded, the error
\* is stored, the transport is closed and connection_lost is emitted with that
\* error; the packets of the frames before were delivered and nothing is
\* delivered afterwards.
Undecodable(i) == packet_factory(Frame(i).bytes).kind = "error"
FirstBad(j) == Undecodable(j) /\ \A i \in 1..(j - 1) : ~Undecodable(i)
C20_State ==
    /\ \A j \in 1..FrameCount :
           FirstBad(j) /\ EndOf(j) <= codec.fed =>
               /\ codec.error = packet_factory(Frame(j).bytes).error
               /\ codec.transport \in {"closing", "lost"}
               /\ Len(codec.emitted) = j - 1
               /\ \A i \in 1..(j - 1) : codec.emitted[i] = packet_factory(Frame(i).bytes).packet
    /\ codec.error # NoErr /\ codec.transport = "lost" => codec.lost = <<codec.error>>
C20_Step == codec.error # NoErr => codec'.emitted = codec.emitted /\ codec'.error = codec.error
C20_CodecErrorCloses == []C20_State /\ [][C20_Step]_vars
C20_Witness ==
    /\ FrameCount = 2
    /\ codec.emitted = <<HeartbeatPacket>>
    /\ codec.error = UnknownPacketError
    /\ codec.transport = "lost"
    /\ codec.lost = <<UnknownPacketError>>


(* the steps of the server that write MESSAGE packets, as the claims speak of them *)
Login(c) == Took(c) /\ handled'.packet.type = LOGIN
Message(c) == Took(c) /\ handled'.packet.type = MESSAGE

\* C21: a LOGIN is answered with the code of the first check that fails, in the
\* order INVALID_USERNAME (the name is not 3 to 12 alphanumeric characters),
\* TAKEN_USERNAME (a logged-in connection holds the name), WRONG_PASSWORD (the
\* password is not the server's), and OK when none fails.  Only with OK is the
\* connection's username set and user_joined emitted; a rejected LOGIN leaves the
\* connections' state and the roster as they were.
C21_FirstFailing(p) ==
    IF ~(Len(p.username) \in 3..12 /\ \A i \in 1..Len(p.username) : p.username[i] \in AlphaNum)
    THEN INVALID_USERNAME
    ELSE IF \E d \in Conns : LoggedInAs(d, p.username) THEN TAKEN_USERNAME
    ELSE IF p.password # server_password THEN WRONG_PASSWORD
    ELSE OK
C21_Step ==
    \A c \in Conns : Login(c) =>
        LET p == handled'.packet
        IN /\ handled'.response = C21_FirstFailing(p)
           /\ handled'.response = OK =>
                 /\ username' = [username EXCEPT ![c] = p.username]
                 /\ joined' = [joined EXCEPT ![c] = @ + 1]
           /\ handled'.response # OK =>
                 /\ UNCHANGED <<username, joined, connected_users, connections, tstate,
                                last_heartbeat, left>>
                 /\ sent' = <<>>
C21_LoginChecksInOrder == [][C21_Step]_vars
\* a LOGIN with a taken name and a wrong password has been answered TAKEN_USERNAME
C21_Witness ==
    /\ handled.packet.type = LOGIN
    /\ handled.response = TAKEN_USERNAME
    /\ handled.packet.password # server_password
    /\ username[handled.conn] = None
    /\ \E d \in Conns : d # handled.conn /\ LoggedInAs(d, handled.packet.username)

\* how many times the last step wrote the packet to connection d
Copies(d, packet) ==
    Cardinality({i \in 1..Len(sent') : sent'[i].to = d /\ sent'[i].packet = packet})
\* d is logged in and its transport is open, before and after the step
Listening(d) ==
    /\ InConnections(d) /\ username[d] # None /\ tstate[d] = "open"
    /\ username'[d] = username[d] /\ tstate'[d] = "open"
IsCommand(text) == text # <<>> /\ text[1] = 47
ValidText(text) == Len(text) \in 1..1000

\* C22: a MESSAGE from a connection with no username, or with a text that is not
\* 1 to 1000 characters, is answered INVALID_MESSAGE and nothing is delivered;
\* any other MESSAGE is answered OK, and its connection stays open and logged-in.
C22_Step ==
    \A c \in Conns : Message(c) =>
        LET p == handled'.packet
        IN IF username[c] = None \/ ~ValidText(p.message)
           THEN handled'.response = INVALID_MESSAGE /\ sent' = <<>>
           ELSE /\ handled'.response = OK
                /\ tstate'[c] = tstate[c]
                /\ username'[c] = username[c]
C22_MessageAnswered == [][C22_Step]_vars

\* C23: the text a logged-in user X sends is delivered as MESSAGE(X, text) exactly
\* once to every other logged-in user and not at all to X; a notice of the server
\* (no sender) is delivered to every logged-in user.
C23_UserStep ==
    \A c \in Conns :
        (Message(c) /\ handled'.response = OK /\ ~IsCommand(handled'.packet.message)) =>
            \A d \in Conns :
                LET n == Copies(d, MessagePacket(username[c], handled'.packet.message))
                IN /\ d = c => n = 0
                   /\ (d # c /\ Listening(d)) => n = 1
C23_SystemStep ==
    \A c \in Conns : (joined'[c] # joined[c] \/ left'[c] # left[c]) =>
        \A d \in Conns \ {c} : Listening(d) =>
            \E i \in 1..Len(sent') : sent'[i].to = d /\ sent'[i].packet.username = None
C23_BroadcastReachesOthers == [][C23_UserStep /\ C23_SystemStep]_vars

\* C27: a text that starts with "/" is never broadcast; when its command is not a
\* registered one, "Invalid command!" is written to the sender and to nobody else.
C27_Step ==
    \A c \in Conns :
        (Message(c) /\ handled'.response = OK /\ IsCommand(handled'.packet.message)
         /\ tstate[c] = "open") =>
            /\ \A i \in 1..Len(sent') : sent'[i].to = c
            /\ parsed_command(handled'.packet.message) \notin COMMAND_HANDLER_MAP =>
                  sent' = <<[to |-> c, packet |-> MessagePacket(None, InvalidCommandText)]>>
C27_CommandsAnswered == [][C27_Step]_vars

\* C24: when a LOGIN of the name U is answered OK, "User U has joined!" is
\* delivered to every user logged-in before it and not to the connection of U,
\* and U is in the roster afterwards, with that connection.
C24_Step ==
    \A c \in Conns : (Login(c) /\ handled'.response = OK) =>
        LET U == handled'.packet.username
            notice == MessagePacket(None, JoinedText(U))
        IN /\ \A d \in Conns \ {c} : Listening(d) => Copies(d, notice) >= 1
           /\ Copies(c, notice) = 0
           /\ \E i \in 1..Len(connected_users') :
                 connected_users'[i] = [name |-> U, conn |-> c]
C24_JoinAnnounced == [][C24_Step]_vars

\* C25: when user_left is emitted for a logged-in user U, U is not in the roster
\* afterwards, and every remaining user receives "User U has left!" when U left
\* without an error and "User U has lost the connection to the server!" otherwise.
C25_Step ==
    \A c \in Conns : left'[c] # left[c] =>
        LET U == username[c]
            notice == MessagePacket(None, IF lastLeftErr'[c] = NoErr THEN LeftText(U)
                                          ELSE LostText(U))
        IN /\ ~HasUser(connected_users', U)
           /\ \A d \in Conns \ {c} : Listening(d) => Copies(d, notice) >= 1
C25_LeaveAnnounced == [][C25_Step]_vars

\* C26: a user_left for a name that is not in the roster is ignored: the roster
\* stays as it is, nothing is broadcast, no error stops the caller: the handling
\* of a closed connection still removes it from the connections, a LOGOUT still
\* clears the username, and the heartbeat monitor keeps running.
C26_Step ==
    \A c \in Conns : (left'[c] # left[c] /\ ~HasUser(connected_users, username[c])) =>
        /\ connected_users' = connected_users
        /\ sent' = <<>>
        /\ tstate'[c] = "lost" => \A i \in 1..Len(connections') : connections'[i] # c
        /\ tstate'[c] # "lost" => username'[c] = None
        /\ monitor' = monitor
C26_UnknownLeaverIgnored == [][C26_Step]_vars

\* C28: what fails on one connection (a codec error, an abrupt close, an exception
\* while its packet is handled) stays on that connection: the step closes no other
\* connection and changes no other connection's username; a later LOGIN that is
\* answered OK is not closed for it; and a later notice of the server still
\* reaches every other logged-in user.
C28_Isolated ==
    \A c \in Conns :
        (Took(c) \/ (tstate[c] = "closing" /\ tstate'[c] = "lost")
                 \/ (nRecv' = nRecv /\ tstate[c] = "open" /\ tstate'[c] = "closing"
                     /\ left' = left)) =>
            \A d \in Conns \ {c} : tstate'[d] = tstate[d] /\ username'[d] = username[d]
C28_LoginSurvives ==
    \A d \in Conns : (Login(d) /\ handled'.response = OK) => tstate'[d] = tstate[d]
C28_NoticeReachesAll ==
    \A c \in Conns : (joined'[c] # joined[c] \/ left'[c] # left[c]) =>
        \A d \in Conns \ {c} : Listening(d) =>
            Cardinality({i \in 1..Len(sent') : sent'[i].to = d}) >= 1
C28_FailuresIsolated == [][C28_Isolated /\ C28_LoginSurvives /\ C28_NoticeReachesAll]_vars

\* C29: when join_server has failed (the LOGIN was answered with a code that is
\* not OK, the connection was lost while the response was awaited, or the host
\* could not be reached) the client networking is disconnected: its transport is
\* not open and it holds no connection, no username and no heartbeat task.
C29_FailedJoinDisconnected ==
    client.join = "failed" =>
        /\ client.transport # "open"
        /\ ~client.connection
        /\ client.username = None
        /\ client.heartbeat_task = "none"

\* C30: connection_lost is emitted upward, with an error, exactly when the stream
\* closes and disconnect was not called before, and at most once in the session;
\* a close of the stream after a disconnect emits nothing; and after the close of
\* the stream, as after a disconnect, the client holds no connection, no username
\* and no heartbeat task.
Dropped == client.transport = "closing" /\ client'.transport = "lost"
Cleared(cl) == ~cl.connection /\ cl.username = None /\ cl.heartbeat_task = "none"
C30_Step ==
    /\ client'.emitted = client.emitted + 1 <=> (Dropped /\ ~client.explicit)
    /\ client'.emitted # client.emitted =>
          client'.emitted = client.emitted + 1 /\ client'.emitted_err # NoErr
    /\ (Dropped \/ client'.op = "disconnect") => Cleared(client')
C30_AtMostOnce == client.emitted <= 1
Answered(type) == type \in {LOGIN, MESSAGE}

C31_Step ==
    \A c \in Conns :
        Took(c) =>
            IF Answered(handled'.packet.type)
            THEN handled'.response \in ResponseCodes
            ELSE handled'.response = NoResponse

\* C31: every LOGIN and every MESSAGE the read loop takes from a connection is
\* answered with one RESPONSE inside its own handler, before the next packet of
\* the connection is taken, and a HEARTBEAT, a LOGOUT or any other packet is
\* answered with none: the responses of a connection come in the order of its
\* requests.
C31_OneResponsePerRequest == [][C31_Step]_vars

C31_Witness ==
    /\ nRecv = MaxPkts
    /\ handled.packet.type = HEARTBEAT
    /\ handled.response = NoResponse
    /\ username[handled.conn] # None
    /\ tstate[handled.conn] = "open"

(* ---------------------------------------------------------------- C32 *)
\* an absent password and an empty one taken as the same password
Blank(password) == IF password = Empty THEN None ELSE password

C32_Step ==
    \A c \in Conns :
        LET p == handled'.packet
        IN Login(c) /\ valid_username(p.username) /\ ~username_is_taken(p.username) =>
               handled'.response =
                   IF Blank(p.password) = Blank(server_password) THEN OK ELSE WRONG_PASSWORD

\* C32: a LOGIN with a valid free username is answered OK when its password and
\* the server's are the same after an absent and an empty password are taken as
\* equal, and WRONG_PASSWORD otherwise.
C32_BlankPasswordsEqual == [][C32_Step]_vars

(* ---------------------------------------------------------------- C33 *)
\* the stream of c is open: connection_made was called, connection_lost not yet
StreamOpen(c) == tstate[c] \in {"open", "closing"}

\* C33: the connections of the server are exactly the connections whose stream
\* is open, from connection_made until connection_lost.
C33_ConnectionsAreOpenStreams == \A c \in Conns : InConnections(c) <=> StreamOpen(c)

(* ---------------------------------------------------------------- C35 *)
C35_Step ==
    \A c \in Conns :
        graceful[c] /\ Took(c) =>
            /\ username'[c] = username[c]
            /\ connected_users' = connected_users
            /\ joined' = joined
            /\ sent' = <<>>

\* C35: once LOGOUT was handled on a connection, a packet taken from that
\* connection afterwards sets no username, leaves the roster as it is, and emits
\* neither user_joined nor message_received (nothing is delivered to anyone).
C35_NothingAfterLogout == [][C35_Step]_vars

(* ---------------------------------------------------------------- C38 *)
\* every connection that logged in as name has left: it logged out or was evicted
\* (its username is cleared) or its stream is closed
HolderLeft(name) == \A d \in Conns : username[d] = name => tstate[d] = "lost"

C38_Step ==
    \A c \in Conns :
        LET p == handled'.packet
        IN Login(c) /\ valid_username(p.username) /\ p.password = server_password
               /\ HolderLeft(p.username)
           => handled'.response = OK

\* C38: a LOGIN with a valid username and the server's password is answered OK
\* when every connection that held the username has left, whatever way it left.
C38_NameFreeAgain == [][C38_Step]_vars

(* ---------------------------------------------------------------- C39 *)
\* C39: while the server serves (the monitor task is not cancelled), no tick of
\* the heartbeat monitor ends the monitor task.
C39_MonitorKeepsTicking == [][monitor = "running" => monitor' = "running"]_vars

(* ---------------------------------------------------------------- C40 *)
\* c is not logged-in, or its latest sign of life is at most 15 s old
Fresh(c) == username[c] = None \/ Delta(c) <= HeartbeatTimeout

C40_Step ==
    MonitorTick =>
        /\ \A c \in Conns :
               Fresh(c) =>
                   /\ left'[c] = left[c]
                   /\ lastLeftErr'[c] = lastLeftErr[c]
                   /\ username'[c] = username[c]
                   /\ tstate'[c] = tstate[c]
                   /\ last_heartbeat'[c] = last_heartbeat[c]
                   /\ connection_time'[c] = connection_time[c]
                   /\ InConnections(c)' = InConnections(c)
                   /\ ~overdue'[c]
        /\ (\A c \in Conns : Fresh(c)) => connected_users' = connected_users /\ sent' = <<>>

\* C40: a tick of the heartbeat monitor leaves alone every connection that is
\* not logged-in and every logged-in connection whose latest heartbeat (or
\* connection time) is at most 15 s old: no user_left for it, its username,
\* transport and times as before; and a tick that finds only such connections
\* changes no roster and writes nothing.
C40_FreshNotEvicted == [][C40_Step]_vars

C40_Witness ==
    /\ monitor = "crashed"
    /\ now = TimeStep
    /\ \E c \in Conns :
           /\ connections = <<c>>
           /\ username[c] # None
           /\ last_heartbeat[c] = now
           /\ ~overdue[c]
           /\ left[c] = 0
           /\ tstate[c] = "open"

(* ---------------------------------------------------------------- C36 *)
\* the step is a send_packet_and_wait that left with NetworkError
WriteFailed == seen'.op = "send_packet_and_wait" /\ seen'.raised = NetworkError

\* C36: when the write of a send_packet_and_wait call fails with NetworkError,
\* the queue of outstanding responses is after the call what it was before it:
\* the future of the failed call does not stay in the queue to take a RESPONSE.
C36_FailedWriteLeavesNoWaiter ==
    [][WriteFailed /\ seen' # seen => proto'.future_responses = proto.future_responses]_vars

(* ---------------------------------------------------------------- C34 *)
NoDuplicates(q) == \A i, j \in 1..Len(q) : q[i] = q[j] => i = j

IsPrefix(a, b) == Len(a) <= Len(b) /\ a = SubSeq(b, 1, Len(a))

RegisteredOnce == \A e \in Events : NoDuplicates(emitter.listeners[e])

\* on of a registered callback changes nothing; on of a new one puts it last
OnStep ==
    emitter'.op = "on" /\ emitter'.event \in Events =>
        LET e == emitter'.event
            q == emitter.listeners[e]
        IN /\ emitter'.raised = NoErr
           /\ \A d \in Events \ {e} : emitter'.listeners[d] = emitter.listeners[d]
           /\ emitter'.listeners[e] =
                  IF contains(q, emitter'.callback) THEN q ELSE Append(q, emitter'.callback)

\* the listeners emit has invoked are the whole list, in its order
EmitAllStep ==
    emitter'.op = "emit" /\ emitter'.event \in Events =>
        /\ emitter'.listeners = emitter.listeners
        /\ emitter'.invoked = emitter.listeners[emitter'.event]

\* the listeners emit has invoked are the list, in its order, up to the first
\* listener that raised, and the whole list when none raised
EmitPrefixStep ==
    emitter'.op = "emit" /\ emitter'.event \in Events =>
        LET q == emitter.listeners[emitter'.event]
            done == emitter'.invoked
        IN /\ emitter'.listeners = emitter.listeners
           /\ IsPrefix(done, q)
           /\ emitter'.raised = NoErr => done = q
           /\ emitter'.raised # NoErr => done # <<>>

\* C34 as stated: every event's list holds each callback at most once, in the
\* order of first registration, registering again is a no-op, and emit invokes
\* every listener of the event once, in that order.
C34_EveryListenerOnce == []RegisteredOnce /\ [][OnStep /\ EmitAllStep]_vars

\* C34: every event's list holds each callback at most once, in the order of
\* first registration, registering again is a no-op, and emit invokes the
\* listeners in that order, each at most once: all of them when none raises,
\* and those up to the first that raises otherwise.
C34_ListenersInOrder == []RegisteredOnce /\ [][OnStep /\ EmitPrefixStep]_vars

C34_Witness ==
    /\ emitter.op = "emit"
    /\ emitter.event \in Events
    /\ emitter.raised = ListenerError
    /\ Len(emitter.listeners[emitter.event]) = NCallbacks
    /\ Len(emitter.invoked) = 2
====
